---- MODULE Spec2Model ----
(***************************************************************************)
(* The command gateway of triagent: the write-command classifier, the      *)
(* approval ledger (ApprovalStoreImpl) and the cli tool that composes      *)
(* them in front of the execution backend.                                 *)
(***************************************************************************)
EXTENDS Integers, Sequences, FiniteSets, TLC

(***************************************************************************)
(* Bounds of the model.                                                    *)
(***************************************************************************)
\* requestApproval calls in one behaviour
MaxRequests == 2
\* clock advances in one behaviour
MaxTicks == 2

(***************************************************************************)
(* Regular expressions, as the sets of positions a match can end at.       *)
(* A position p means "p characters consumed"; s is a sequence of          *)
(* one-character strings.                                                  *)
(***************************************************************************)
Lit(w) == [k |-> "lit", w |-> w]
Alt(rs) == [k |-> "alt", rs |-> rs]
Cat(rs) == [k |-> "cat", rs |-> rs]
Opt(r) == [k |-> "opt", rs |-> <<r>>]
NotAhead(r) == [k |-> "notahead", rs |-> <<r>>]
OneOf(cs) == [k |-> "oneof", cs |-> cs]
WordBoundary == [k |-> "wb"]
Spaces == [k |-> "spaces"]
AnyChars == [k |-> "any"]

LowerLetters ==
    <<"a","b","c","d","e","f","g","h","i","j","k","l","m","n","o","p","q","r","s","t","u","v","w","x","y","z">>
UpperLetters ==
    <<"A","B","C","D","E","F","G","H","I","J","K","L","M","N","O","P","Q","R","S","T","U","V","W","X","Y","Z">>
Digits == {"0","1","2","3","4","5","6","7","8","9"}
Range(f) == {f[i] : i \in DOMAIN f}

\* \w of a JavaScript regular expression
IsWordChar(c) == c \in Range(LowerLetters) \cup Range(UpperLetters) \cup Digits \cup {"_"}
\* \s, over the white space the model's strings use
IsSpace(c) == c \in {" ", "\t", "\n"}

\* the i flag: matching is done on the lower-cased subject
ToLower(s) ==
    [i \in DOMAIN s |->
        IF \E j \in DOMAIN UpperLetters : UpperLetters[j] = s[i]
        THEN LowerLetters[CHOOSE j \in DOMAIN UpperLetters : UpperLetters[j] = s[i]]
        ELSE s[i]]

RECURSIVE Ends(_, _, _)
RECURSIVE CatEnds(_, _, _, _)
\* the positions at which a match of r can end when it starts at a position of P
Ends(r, s, P) ==
    CASE r.k = "lit" ->
           {p + Len(r.w) : p \in {q \in P : q + Len(r.w) <= Len(s)
                                            /\ SubSeq(s, q + 1, q + Len(r.w)) = r.w}}
      [] r.k = "wb" ->
           {p \in P : (p > 0 /\ IsWordChar(s[p])) # (p < Len(s) /\ IsWordChar(s[p + 1]))}
      [] r.k = "spaces" ->
           {q \in 1..Len(s) : \E p \in P : p < q /\ \A i \in (p + 1)..q : IsSpace(s[i])}
      [] r.k = "any" ->
           {q \in 0..Len(s) : \E p \in P : p <= q /\ \A i \in (p + 1)..q : s[i] # "\n"}
      [] r.k = "oneof" ->
           {p + 1 : p \in {q \in P : q < Len(s) /\ s[q + 1] \in r.cs}}
      [] r.k = "alt" -> UNION {Ends(r.rs[i], s, P) : i \in DOMAIN r.rs}
      [] r.k = "cat" -> CatEnds(r.rs, 1, s, P)
      [] r.k = "opt" -> P \cup Ends(r.rs[1], s, P)
      [] r.k = "notahead" -> {p \in P : Ends(r.rs[1], s, {p}) = {}}
CatEnds(rs, i, s, P) ==
    IF i > Len(rs) THEN P ELSE CatEnds(rs, i + 1, s, Ends(rs[i], s, P))

\* RegExp.prototype.test without the i flag, and with it
Test(r, s) == Ends(r, s, 0..Len(s)) # {}
TestI(r, s) == Test(r, ToLower(s))

(***************************************************************************)
(* The command strings of the model.                                       *)
(***************************************************************************)
CmdGetPods == "kubectl get pods -A"
CmdScale == "kubectl scale deployment/x --replicas=3"
CmdDeleteNs == "kubectl delete namespace prod"
CmdTouch == "touch /tmp/x"

\* The characters of each command string of the model.
Chars(command) ==
    CASE command = CmdGetPods -> <<"k","u","b","e","c","t","l"," ","g","e","t"," ","p","o","d","s"," ","-","A">>
      [] command = CmdScale -> <<"k","u","b","e","c","t","l"," ","s","c","a","l","e"," ","d","e","p","l","o","y","m","e","n","t","/","x"," ","-","-","r","e","p","l","i","c","a","s","=","3">>
      [] command = CmdDeleteNs -> <<"k","u","b","e","c","t","l"," ","d","e","l","e","t","e"," ","n","a","m","e","s","p","a","c","e"," ","p","r","o","d">>
      [] command = CmdTouch -> <<"t","o","u","c","h"," ","/","t","m","p","/","x">>
Commands == {CmdGetPods, CmdScale, CmdDeleteNs, CmdTouch}
\* the commands the agent passes to the cli tool
CallCommands == {CmdGetPods, CmdScale, CmdDeleteNs}

(***************************************************************************)
(* The pattern tables (approval-store: risk tiers; cli tool: write         *)
(* detector).                                                              *)
(***************************************************************************)
\* /\bkubectl\s+delete\s+(namespace|ns|node|pv|pvc|clusterrole)/i
CRITICAL_1 ==
    Cat(<<WordBoundary, Lit(<<"k","u","b","e","c","t","l">>), Spaces, Lit(<<"d","e","l","e","t","e">>), Spaces, Alt(<<Lit(<<"n","a","m","e","s","p","a","c","e">>), Lit(<<"n","s">>), Lit(<<"n","o","d","e">>), Lit(<<"p","v">>), Lit(<<"p","v","c">>), Lit(<<"c","l","u","s","t","e","r","r","o","l","e">>)>>)>>)

\* /\brm\s+-rf?\s+\/(?!tmp)/i
CRITICAL_2 ==
    Cat(<<WordBoundary, Lit(<<"r","m">>), Spaces, Lit(<<"-","r">>), Opt(Lit(<<"f">>)), Spaces, Lit(<<"/">>), NotAhead(Lit(<<"t","m","p">>))>>)

\* /\bgit\s+push\s+.*--force/i
CRITICAL_3 ==
    Cat(<<WordBoundary, Lit(<<"g","i","t">>), Spaces, Lit(<<"p","u","s","h">>), Spaces, AnyChars, Lit(<<"-","-","f","o","r","c","e">>)>>)

\* /\bhelm\s+(uninstall|delete)\b/i
CRITICAL_4 ==
    Cat(<<WordBoundary, Lit(<<"h","e","l","m">>), Spaces, Alt(<<Lit(<<"u","n","i","n","s","t","a","l","l">>), Lit(<<"d","e","l","e","t","e">>)>>), WordBoundary>>)

\* /\bkubectl\s+delete\b/i
HIGH_1 ==
    Cat(<<WordBoundary, Lit(<<"k","u","b","e","c","t","l">>), Spaces, Lit(<<"d","e","l","e","t","e">>), WordBoundary>>)

\* /\bkubectl\s+apply\s+-f\s+http/i
HIGH_2 ==
    Cat(<<WordBoundary, Lit(<<"k","u","b","e","c","t","l">>), Spaces, Lit(<<"a","p","p","l","y">>), Spaces, Lit(<<"-","f">>), Spaces, Lit(<<"h","t","t","p">>)>>)

\* /\bkubectl\s+drain\b/i
HIGH_3 ==
    Cat(<<WordBoundary, Lit(<<"k","u","b","e","c","t","l">>), Spaces, Lit(<<"d","r","a","i","n">>), WordBoundary>>)

\* /\bkubectl\s+cordon\b/i
HIGH_4 ==
    Cat(<<WordBoundary, Lit(<<"k","u","b","e","c","t","l">>), Spaces, Lit(<<"c","o","r","d","o","n">>), WordBoundary>>)

\* /\bgit\s+reset\s+--hard/i
HIGH_5 ==
    Cat(<<WordBoundary, Lit(<<"g","i","t">>), Spaces, Lit(<<"r","e","s","e","t">>), Spaces, Lit(<<"-","-","h","a","r","d">>)>>)

\* /\bgit\s+push\b/i
HIGH_6 ==
    Cat(<<WordBoundary, Lit(<<"g","i","t">>), Spaces, Lit(<<"p","u","s","h">>), WordBoundary>>)

\* /\bhelm\s+(install|upgrade)\b/i
HIGH_7 ==
    Cat(<<WordBoundary, Lit(<<"h","e","l","m">>), Spaces, Alt(<<Lit(<<"i","n","s","t","a","l","l">>), Lit(<<"u","p","g","r","a","d","e">>)>>), WordBoundary>>)

\* /\bkubectl\s+scale\b/i
MEDIUM_1 ==
    Cat(<<WordBoundary, Lit(<<"k","u","b","e","c","t","l">>), Spaces, Lit(<<"s","c","a","l","e">>), WordBoundary>>)

\* /\bkubectl\s+rollout\s+(restart|undo)/i
MEDIUM_2 ==
    Cat(<<WordBoundary, Lit(<<"k","u","b","e","c","t","l">>), Spaces, Lit(<<"r","o","l","l","o","u","t">>), Spaces, Alt(<<Lit(<<"r","e","s","t","a","r","t">>), Lit(<<"u","n","d","o">>)>>)>>)

\* /\bkubectl\s+(apply|create|patch)\b/i
MEDIUM_3 ==
    Cat(<<WordBoundary, Lit(<<"k","u","b","e","c","t","l">>), Spaces, Alt(<<Lit(<<"a","p","p","l","y">>), Lit(<<"c","r","e","a","t","e">>), Lit(<<"p","a","t","c","h">>)>>), WordBoundary>>)

\* /\bgit\s+(commit|merge|rebase)/i
MEDIUM_4 ==
    Cat(<<WordBoundary, Lit(<<"g","i","t">>), Spaces, Alt(<<Lit(<<"c","o","m","m","i","t">>), Lit(<<"m","e","r","g","e">>), Lit(<<"r","e","b","a","s","e">>)>>)>>)

\* /\bkubectl\s+(delete|apply|create|patch|edit|replace|set|label|annotate|taint|cordon|uncordon|drain)\b/i
WRITE_1 ==
    Cat(<<WordBoundary, Lit(<<"k","u","b","e","c","t","l">>), Spaces, Alt(<<Lit(<<"d","e","l","e","t","e">>), Lit(<<"a","p","p","l","y">>), Lit(<<"c","r","e","a","t","e">>), Lit(<<"p","a","t","c","h">>), Lit(<<"e","d","i","t">>), Lit(<<"r","e","p","l","a","c","e">>), Lit(<<"s","e","t">>), Lit(<<"l","a","b","e","l">>), Lit(<<"a","n","n","o","t","a","t","e">>), Lit(<<"t","a","i","n","t">>), Lit(<<"c","o","r","d","o","n">>), Lit(<<"u","n","c","o","r","d","o","n">>), Lit(<<"d","r","a","i","n">>)>>), WordBoundary>>)

\* /\bkubectl\s+rollout\s+(restart|undo|pause|resume)\b/i
WRITE_2 ==
    Cat(<<WordBoundary, Lit(<<"k","u","b","e","c","t","l">>), Spaces, Lit(<<"r","o","l","l","o","u","t">>), Spaces, Alt(<<Lit(<<"r","e","s","t","a","r","t">>), Lit(<<"u","n","d","o">>), Lit(<<"p","a","u","s","e">>), Lit(<<"r","e","s","u","m","e">>)>>), WordBoundary>>)

\* /\bkubectl\s+scale\b/i
WRITE_3 ==
    Cat(<<WordBoundary, Lit(<<"k","u","b","e","c","t","l">>), Spaces, Lit(<<"s","c","a","l","e">>), WordBoundary>>)

\* /\bkubectl\s+exec\b.*\s+--\s+.*(rm|mv|cp|chmod|chown|kill|pkill|shutdown|reboot|dd|mkfs|fdisk)\b/i
WRITE_4 ==
    Cat(<<WordBoundary, Lit(<<"k","u","b","e","c","t","l">>), Spaces, Lit(<<"e","x","e","c">>), WordBoundary, AnyChars, Spaces, Lit(<<"-","-">>), Spaces, AnyChars, Alt(<<Lit(<<"r","m">>), Lit(<<"m","v">>), Lit(<<"c","p">>), Lit(<<"c","h","m","o","d">>), Lit(<<"c","h","o","w","n">>), Lit(<<"k","i","l","l">>), Lit(<<"p","k","i","l","l">>), Lit(<<"s","h","u","t","d","o","w","n">>), Lit(<<"r","e","b","o","o","t">>), Lit(<<"d","d">>), Lit(<<"m","k","f","s">>), Lit(<<"f","d","i","s","k">>)>>), WordBoundary>>)

\* /\bgit\s+(commit|push|merge|rebase|reset|checkout|stash|tag|branch\s+-[dD]|cherry-pick|revert|am|pull)\b/i
WRITE_5 ==
    Cat(<<WordBoundary, Lit(<<"g","i","t">>), Spaces, Alt(<<Lit(<<"c","o","m","m","i","t">>), Lit(<<"p","u","s","h">>), Lit(<<"m","e","r","g","e">>), Lit(<<"r","e","b","a","s","e">>), Lit(<<"r","e","s","e","t">>), Lit(<<"c","h","e","c","k","o","u","t">>), Lit(<<"s","t","a","s","h">>), Lit(<<"t","a","g">>), Cat(<<Lit(<<"b","r","a","n","c","h">>), Spaces, Lit(<<"-","d">>)>>), Lit(<<"c","h","e","r","r","y","-","p","i","c","k">>), Lit(<<"r","e","v","e","r","t">>), Lit(<<"a","m">>), Lit(<<"p","u","l","l">>)>>), WordBoundary>>)

\* /\b(rm|rmdir|mv|cp|mkdir|touch|chmod|chown|ln)\s+/i
WRITE_6 ==
    Cat(<<WordBoundary, Alt(<<Lit(<<"r","m">>), Lit(<<"r","m","d","i","r">>), Lit(<<"m","v">>), Lit(<<"c","p">>), Lit(<<"m","k","d","i","r">>), Lit(<<"t","o","u","c","h">>), Lit(<<"c","h","m","o","d">>), Lit(<<"c","h","o","w","n">>), Lit(<<"l","n">>)>>), Spaces>>)

\* /\b(cat|echo|printf)\s+.*[>|]/  (case-sensitive)
WRITE_7 ==
    Cat(<<WordBoundary, Alt(<<Lit(<<"c","a","t">>), Lit(<<"e","c","h","o">>), Lit(<<"p","r","i","n","t","f">>)>>), Spaces, AnyChars, OneOf({">", "|"})>>)

\* /\btee\s+/i
WRITE_8 ==
    Cat(<<WordBoundary, Lit(<<"t","e","e">>), Spaces>>)

\* /\bsed\s+-i/i
WRITE_9 ==
    Cat(<<WordBoundary, Lit(<<"s","e","d">>), Spaces, Lit(<<"-","i">>)>>)

\* /\b(apt|apt-get|yum|dnf|brew|npm|yarn|pip|cargo)\s+(install|remove|uninstall|update|upgrade)\b/i
WRITE_10 ==
    Cat(<<WordBoundary, Alt(<<Lit(<<"a","p","t">>), Lit(<<"a","p","t","-","g","e","t">>), Lit(<<"y","u","m">>), Lit(<<"d","n","f">>), Lit(<<"b","r","e","w">>), Lit(<<"n","p","m">>), Lit(<<"y","a","r","n">>), Lit(<<"p","i","p">>), Lit(<<"c","a","r","g","o">>)>>), Spaces, Alt(<<Lit(<<"i","n","s","t","a","l","l">>), Lit(<<"r","e","m","o","v","e">>), Lit(<<"u","n","i","n","s","t","a","l","l">>), Lit(<<"u","p","d","a","t","e">>), Lit(<<"u","p","g","r","a","d","e">>)>>), WordBoundary>>)

\* /\b(systemctl|service)\s+(start|stop|restart|enable|disable)\b/i
WRITE_11 ==
    Cat(<<WordBoundary, Alt(<<Lit(<<"s","y","s","t","e","m","c","t","l">>), Lit(<<"s","e","r","v","i","c","e">>)>>), Spaces, Alt(<<Lit(<<"s","t","a","r","t">>), Lit(<<"s","t","o","p">>), Lit(<<"r","e","s","t","a","r","t">>), Lit(<<"e","n","a","b","l","e">>), Lit(<<"d","i","s","a","b","l","e">>)>>), WordBoundary>>)

\* /\bdocker\s+(rm|rmi|stop|kill|prune|system\s+prune)\b/i
WRITE_12 ==
    Cat(<<WordBoundary, Lit(<<"d","o","c","k","e","r">>), Spaces, Alt(<<Lit(<<"r","m">>), Lit(<<"r","m","i">>), Lit(<<"s","t","o","p">>), Lit(<<"k","i","l","l">>), Lit(<<"p","r","u","n","e">>), Cat(<<Lit(<<"s","y","s","t","e","m">>), Spaces, Lit(<<"p","r","u","n","e">>)>>)>>), WordBoundary>>)

\* /\bdocker-compose\s+(down|rm|stop)\b/i
WRITE_13 ==
    Cat(<<WordBoundary, Lit(<<"d","o","c","k","e","r","-","c","o","m","p","o","s","e">>), Spaces, Alt(<<Lit(<<"d","o","w","n">>), Lit(<<"r","m">>), Lit(<<"s","t","o","p">>)>>), WordBoundary>>)

\* /\bhelm\s+(install|upgrade|uninstall|delete|rollback)\b/i
WRITE_14 ==
    Cat(<<WordBoundary, Lit(<<"h","e","l","m">>), Spaces, Alt(<<Lit(<<"i","n","s","t","a","l","l">>), Lit(<<"u","p","g","r","a","d","e">>), Lit(<<"u","n","i","n","s","t","a","l","l">>), Lit(<<"d","e","l","e","t","e">>), Lit(<<"r","o","l","l","b","a","c","k">>)>>), WordBoundary>>)

CRITICAL_PATTERNS == <<CRITICAL_1, CRITICAL_2, CRITICAL_3, CRITICAL_4>>
HIGH_PATTERNS == <<HIGH_1, HIGH_2, HIGH_3, HIGH_4, HIGH_5, HIGH_6, HIGH_7>>
MEDIUM_PATTERNS == <<MEDIUM_1, MEDIUM_2, MEDIUM_3, MEDIUM_4>>
WRITE_COMMAND_PATTERNS ==
    <<WRITE_1, WRITE_2, WRITE_3, WRITE_4, WRITE_5, WRITE_6, WRITE_7,
      WRITE_8, WRITE_9, WRITE_10, WRITE_11, WRITE_12, WRITE_13, WRITE_14>>

\* patterns.some(p => p.test(command)), every pattern carrying the i flag
\* patterns.some(p => p.test(command)), command given as its characters
SomeTestI(patterns, command) ==
    \E i \in DOMAIN patterns : TestI(patterns[i], command)

\* faulty variant: the high tier is tried before the critical tier
classifyRisk_highFirst(command) ==
    IF SomeTestI(HIGH_PATTERNS, command) THEN "high"
    ELSE IF SomeTestI(CRITICAL_PATTERNS, command) THEN "critical"
    ELSE IF SomeTestI(MEDIUM_PATTERNS, command) THEN "medium"
    ELSE "low"

classifyRisk(command) ==
    IF SomeTestI(CRITICAL_PATTERNS, command) THEN "critical"
    ELSE IF SomeTestI(HIGH_PATTERNS, command) THEN "high"
    ELSE IF SomeTestI(MEDIUM_PATTERNS, command) THEN "medium"
    ELSE "low"

\* WRITE_7 is the one pattern without the i flag
isWriteCommand(command) ==
    \E i \in DOMAIN WRITE_COMMAND_PATTERNS :
        IF i = 7 THEN Test(WRITE_COMMAND_PATTERNS[i], command)
        ELSE TestI(WRITE_COMMAND_PATTERNS[i], command)

\* the classifier tabulated over the commands of the model (f @@ <<>> is f,
\* held as an explicit table)
RiskOf == [c \in Commands |-> classifyRisk(Chars(c))] @@ <<>>
IsWrite == [c \in Commands |-> isWriteCommand(Chars(c))] @@ <<>>
WriteCommands == {c \in Commands : IsWrite[c]}

(***************************************************************************)
(* The approval ledger: ApprovalStoreImpl.                                 *)
(***************************************************************************)
\* 10 minutes
EXPIRATION_MS == 10 * 60 * 1000
\* the clock (new Date()) is observed at multiples of the lifetime: an entry is
\* seen at its creation, at exactly its expiresAt, and after it
TickMs == EXPIRATION_MS

\* no token (null, undefined, or an absent approvalToken) and no id
NoToken == 0
NoId == 0
\* randomBytes(8) and randomBytes(16): the values of one random stream, taken
\* never to repeat; after n values have been drawn, the next requestApproval
\* draws value n+1 for its id and value n+2 for its token
generateId(n) == n + 1
generateToken(n) == n + 2
IdValues == {generateId(2 * k) : k \in 0..(MaxRequests - 1)}
TokenValues == {generateToken(2 * k) : k \in 0..(MaxRequests - 1)}

VARIABLES
    now,             \* the wall clock, in ms since the process started
    pending,         \* Map<id, PendingApproval>
    approvedTokens,  \* Map<token, {command, expiresAt}>
    rng,             \* the number of values drawn from randomBytes so far
    requests,        \* history: every PendingApproval ever created, by id
    uses,            \* history: token -> number of validateToken calls that returned true (1, or 2 for more)
    rejected,        \* history: the ids rejected while they were pending
    ungated          \* history: execCommand ran a write command in a tool call
                     \* in which no token was validated

ledgerVars == <<pending, approvedTokens, rng, requests, uses, rejected, ungated>>

\* Map.set, Map.delete and a Map restricted to some of its keys
MapSet(m, key, v) == [x \in DOMAIN m \cup {key} |-> IF x = key THEN v ELSE m[x]]
MapDelete(m, key) == [x \in DOMAIN m \ {key} |-> m[x]]
MapKeep(m, keys) == [x \in keys |-> m[x]]
EmptyMap == [x \in {} |-> NoId]

Store == [pending |-> pending, approvedTokens |-> approvedTokens]

\* faulty variant: an entry is expired from its expiresAt on
Expired_atExpiry(t, entry) == t >= entry.expiresAt

\* new Date() > entry.expiresAt
Expired(t, entry) == t > entry.expiresAt

\* faulty variant: the sweep forgets the approved tokens
clearExpired_pendingOnly(S, t) ==
    [pending |-> MapKeep(S.pending, {i \in DOMAIN S.pending : ~Expired(t, S.pending[i])}),
     approvedTokens |-> S.approvedTokens]

clearExpired(S, t) ==
    [pending |-> MapKeep(S.pending, {i \in DOMAIN S.pending : ~Expired(t, S.pending[i])}),
     approvedTokens |->
        MapKeep(S.approvedTokens,
                {k \in DOMAIN S.approvedTokens : ~Expired(t, S.approvedTokens[k])})]

\* faulty variant: the token of a new request is valid at once
requestApproval_autoApproves(S, t, command, n) ==
    LET C == clearExpired(S, t)
        approval == [id |-> generateId(n),
                     command |-> command,
                     token |-> generateToken(n),
                     riskLevel |-> RiskOf[command],
                     createdAt |-> t,
                     expiresAt |-> t + EXPIRATION_MS]
    IN  [pending |-> MapSet(C.pending, approval.id, approval),
         approvedTokens |-> MapSet(C.approvedTokens, approval.token,
                                   [command |-> command, expiresAt |-> approval.expiresAt]),
         ret |-> approval]

\* faulty variant: an unexpired request for the same command is handed out again
requestApproval_reusesPending(S, t, command, n) ==
    LET C == clearExpired(S, t)
        same == {id \in DOMAIN C.pending : C.pending[id].command = command}
        approval == [id |-> generateId(n),
                     command |-> command,
                     token |-> generateToken(n),
                     riskLevel |-> RiskOf[command],
                     createdAt |-> t,
                     expiresAt |-> t + EXPIRATION_MS]
    IN  IF same # {}
        THEN [pending |-> C.pending, approvedTokens |-> C.approvedTokens,
              ret |-> C.pending[CHOOSE id \in same : TRUE]]
        ELSE [pending |-> MapSet(C.pending, approval.id, approval),
              approvedTokens |-> C.approvedTokens,
              ret |-> approval]

requestApproval(S, t, command, n) ==
    LET C == clearExpired(S, t)
        approval == [id |-> generateId(n),
                     command |-> command,
                     token |-> generateToken(n),
                     riskLevel |-> RiskOf[command],
                     createdAt |-> t,
                     expiresAt |-> t + EXPIRATION_MS]
    IN  [pending |-> MapSet(C.pending, approval.id, approval),
         approvedTokens |-> C.approvedTokens,
         ret |-> approval]

\* faulty variant: approve does not look at expiresAt
approve_noExpiryCheck(S, t, id) ==
    IF id \notin DOMAIN S.pending
    THEN [pending |-> S.pending, approvedTokens |-> S.approvedTokens, ret |-> NoToken]
    ELSE [pending |-> MapDelete(S.pending, id),
          approvedTokens |->
             MapSet(S.approvedTokens, S.pending[id].token,
                    [command |-> S.pending[id].command,
                     expiresAt |-> S.pending[id].expiresAt]),
          ret |-> S.pending[id].token]

\* faulty variant: approve leaves the PendingApproval in place
approve_keepsPending(S, t, id) ==
    IF id \notin DOMAIN S.pending
    THEN [pending |-> S.pending, approvedTokens |-> S.approvedTokens, ret |-> NoToken]
    ELSE IF Expired(t, S.pending[id])
    THEN [pending |-> MapDelete(S.pending, id),
          approvedTokens |-> S.approvedTokens,
          ret |-> NoToken]
    ELSE [pending |-> S.pending,
          approvedTokens |->
             MapSet(S.approvedTokens, S.pending[id].token,
                    [command |-> S.pending[id].command,
                     expiresAt |-> S.pending[id].expiresAt]),
          ret |-> S.pending[id].token]

\* faulty variant: the approved token lives 10 minutes from the approval
approve_freshExpiry(S, t, id) ==
    IF id \notin DOMAIN S.pending
    THEN [pending |-> S.pending, approvedTokens |-> S.approvedTokens, ret |-> NoToken]
    ELSE IF Expired(t, S.pending[id])
    THEN [pending |-> MapDelete(S.pending, id),
          approvedTokens |-> S.approvedTokens,
          ret |-> NoToken]
    ELSE [pending |-> MapDelete(S.pending, id),
          approvedTokens |->
             MapSet(S.approvedTokens, S.pending[id].token,
                    [command |-> S.pending[id].command,
                     expiresAt |-> t + EXPIRATION_MS]),
          ret |-> S.pending[id].token]

approve(S, t, id) ==
    IF id \notin DOMAIN S.pending
    THEN [pending |-> S.pending, approvedTokens |-> S.approvedTokens, ret |-> NoToken]
    ELSE IF Expired(t, S.pending[id])
    THEN [pending |-> MapDelete(S.pending, id),
          approvedTokens |-> S.approvedTokens,
          ret |-> NoToken]
    ELSE [pending |-> MapDelete(S.pending, id),
          approvedTokens |->
             MapSet(S.approvedTokens, S.pending[id].token,
                    [command |-> S.pending[id].command,
                     expiresAt |-> S.pending[id].expiresAt]),
          ret |-> S.pending[id].token]

\* faulty variant: reject deletes nothing
reject_noop(S, id) ==
    [pending |-> S.pending, approvedTokens |-> S.approvedTokens]

reject(S, id) ==
    [pending |-> MapDelete(S.pending, id), approvedTokens |-> S.approvedTokens]

\* faulty variant: a valid token is not consumed
validateToken_noConsume(S, t, command, token) ==
    IF token \notin DOMAIN S.approvedTokens
    THEN [pending |-> S.pending, approvedTokens |-> S.approvedTokens, ret |-> FALSE]
    ELSE IF Expired(t, S.approvedTokens[token])
    THEN [pending |-> S.pending,
          approvedTokens |-> MapDelete(S.approvedTokens, token),
          ret |-> FALSE]
    ELSE IF S.approvedTokens[token].command # command
    THEN [pending |-> S.pending, approvedTokens |-> S.approvedTokens, ret |-> FALSE]
    ELSE [pending |-> S.pending, approvedTokens |-> S.approvedTokens, ret |-> TRUE]

\* faulty variant: the command is not compared
validateToken_anyCommand(S, t, command, token) ==
    IF token \notin DOMAIN S.approvedTokens
    THEN [pending |-> S.pending, approvedTokens |-> S.approvedTokens, ret |-> FALSE]
    ELSE IF Expired(t, S.approvedTokens[token])
    THEN [pending |-> S.pending,
          approvedTokens |-> MapDelete(S.approvedTokens, token),
          ret |-> FALSE]
    ELSE [pending |-> S.pending,
          approvedTokens |-> MapDelete(S.approvedTokens, token),
          ret |-> TRUE]

\* faulty variant: a token presented for another command is consumed
validateToken_consumesOnMismatch(S, t, command, token) ==
    IF token \notin DOMAIN S.approvedTokens
    THEN [pending |-> S.pending, approvedTokens |-> S.approvedTokens, ret |-> FALSE]
    ELSE IF Expired(t, S.approvedTokens[token])
    THEN [pending |-> S.pending,
          approvedTokens |-> MapDelete(S.approvedTokens, token),
          ret |-> FALSE]
    ELSE [pending |-> S.pending,
          approvedTokens |-> MapDelete(S.approvedTokens, token),
          ret |-> S.approvedTokens[token].command = command]

validateToken(S, t, command, token) ==
    IF token \notin DOMAIN S.approvedTokens
    THEN [pending |-> S.pending, approvedTokens |-> S.approvedTokens, ret |-> FALSE]
    ELSE IF Expired(t, S.approvedTokens[token])
    THEN [pending |-> S.pending,
          approvedTokens |-> MapDelete(S.approvedTokens, token),
          ret |-> FALSE]
    ELSE IF S.approvedTokens[token].command # command
    THEN [pending |-> S.pending, approvedTokens |-> S.approvedTokens, ret |-> FALSE]
    ELSE [pending |-> S.pending,
          approvedTokens |-> MapDelete(S.approvedTokens, token),
          ret |-> TRUE]

\* faulty variant: a lookup that hits an expired entry sweeps all of them
getPending_sweepsAll(S, t, id) ==
    IF id \in DOMAIN S.pending /\ Expired(t, S.pending[id])
    THEN [pending |-> clearExpired(S, t).pending,
          approvedTokens |-> clearExpired(S, t).approvedTokens,
          ret |-> NoId]
    ELSE [pending |-> S.pending,
          approvedTokens |-> S.approvedTokens,
          ret |-> IF id \in DOMAIN S.pending THEN id ELSE NoId]

\* ret: the id of the entry returned, NoId for undefined
getPending(S, t, id) ==
    IF id \in DOMAIN S.pending /\ Expired(t, S.pending[id])
    THEN [pending |-> MapDelete(S.pending, id),
          approvedTokens |-> S.approvedTokens,
          ret |-> NoId]
    ELSE [pending |-> S.pending,
          approvedTokens |-> S.approvedTokens,
          ret |-> IF id \in DOMAIN S.pending THEN id ELSE NoId]

\* ret: the ids of the entries returned
getAllPending(S, t) ==
    LET C == clearExpired(S, t)
    IN  [pending |-> C.pending, approvedTokens |-> C.approvedTokens, ret |-> DOMAIN C.pending]

(***************************************************************************)
(* The cli tool (the command gateway) in front of execCommand.             *)
(***************************************************************************)
\* what the backend's execCommand does with a command it is given
BackendOutcomes == {"exit0", "exitNonZero", "throws"}

\* faulty variant: the response carries the token of the new request
Refused_withToken(R) ==
    [pending |-> R.pending, approvedTokens |-> R.approvedTokens,
     validated |-> FALSE, created |-> TRUE, approval |-> R.ret, executed |-> FALSE,
     out |-> [success |-> FALSE, requiresApproval |-> TRUE,
              approvalId |-> R.ret.token, riskLevel |-> R.ret.riskLevel]]

\* the tool's result when it asked for approval instead of executing
Refused(R) ==
    [pending |-> R.pending, approvedTokens |-> R.approvedTokens,
     validated |-> FALSE, created |-> TRUE, approval |-> R.ret, executed |-> FALSE,
     out |-> [success |-> FALSE, requiresApproval |-> TRUE,
              approvalId |-> R.ret.id, riskLevel |-> R.ret.riskLevel]]

\* the tool's result when it called execCommand
Ran(S, validated, outcome) ==
    [pending |-> S.pending, approvedTokens |-> S.approvedTokens,
     validated |-> validated, created |-> FALSE, approval |-> NoId, executed |-> TRUE,
     out |-> [success |-> outcome = "exit0", requiresApproval |-> FALSE,
              approvalId |-> NoId, riskLevel |-> ""]]

\* faulty variant: a write command without a token is executed
cliTool_execute_tokenOptional(S, t, command, approvalToken, n, outcome) ==
    IF IsWrite[command] /\ approvalToken # NoToken
    THEN LET V == validateToken(S, t, command, approvalToken)
         IN  IF ~V.ret
             THEN Refused(requestApproval(V, t, command, n))
             ELSE Ran(V, TRUE, outcome)
    ELSE Ran(S, FALSE, outcome)

\* faulty variant: a supplied token is taken as valid without asking the store
cliTool_execute_skipsValidation(S, t, command, approvalToken, n, outcome) ==
    IF IsWrite[command] /\ approvalToken = NoToken
    THEN Refused(requestApproval(S, t, command, n))
    ELSE Ran(S, FALSE, outcome)

\* faulty variant: a write command runs although its token was not accepted
cliTool_execute_runsOnInvalid(S, t, command, approvalToken, n, outcome) ==
    IF IsWrite[command]
    THEN IF approvalToken # NoToken
         THEN LET V == validateToken(S, t, command, approvalToken)
              IN  Ran(V, V.ret, outcome)
         ELSE Refused(requestApproval(S, t, command, n))
    ELSE Ran(S, FALSE, outcome)

\* faulty variant: the token is removed only after the backend succeeded
cliTool_execute_consumesAfterSuccess(S, t, command, approvalToken, n, outcome) ==
    IF IsWrite[command]
    THEN IF approvalToken # NoToken
         THEN LET V == validateToken(S, t, command, approvalToken)
              IN  IF ~V.ret
                  THEN Refused(requestApproval(V, t, command, n))
                  ELSE Ran(IF outcome = "exit0" THEN V ELSE S, TRUE, outcome)
         ELSE Refused(requestApproval(S, t, command, n))
    ELSE Ran(S, FALSE, outcome)

\* faulty variant: a supplied token is validated before the write check
cliTool_execute_validatesFirst(S, t, command, approvalToken, n, outcome) ==
    IF approvalToken # NoToken
    THEN LET V == validateToken(S, t, command, approvalToken)
         IN  IF ~V.ret
             THEN Refused(requestApproval(V, t, command, n))
             ELSE Ran(V, TRUE, outcome)
    ELSE IF IsWrite[command]
    THEN Refused(requestApproval(S, t, command, n))
    ELSE Ran(S, FALSE, outcome)

\* cliTool.execute with the approvalToken input
cliTool_execute(S, t, command, approvalToken, n, outcome) ==
    IF IsWrite[command]
    THEN IF approvalToken # NoToken
         THEN LET V == validateToken(S, t, command, approvalToken)
              IN  IF ~V.ret
                  THEN Refused(requestApproval(V, t, command, n))
                  ELSE Ran(V, TRUE, outcome)
         ELSE Refused(requestApproval(S, t, command, n))
    ELSE Ran(S, FALSE, outcome)

\* cliTool.execute with the approved input (a boolean the caller sets)
cliTool_execute_approved(S, command, approved, outcome) ==
    IF IsWrite[command] /\ ~approved
    THEN [pending |-> S.pending, approvedTokens |-> S.approvedTokens,
          validated |-> FALSE, created |-> FALSE, approval |-> NoId, executed |-> FALSE,
          out |-> [success |-> FALSE, requiresApproval |-> TRUE,
                   approvalId |-> NoId, riskLevel |-> ""]]
    ELSE Ran(S, FALSE, outcome)

(***************************************************************************)
(* The execution backends of bashlet.ts: the module state, execCommand,    *)
(* and the persistent SSH shell with its marker protocol.  A text is a     *)
(* sequence of one-character strings; the marker of a call, a fixed text   *)
(* around randomBytes(4), is one symbol of such a sequence, and the        *)
(* markers of different calls are taken to differ.                         *)
(***************************************************************************)
\* the execCommand calls of a behaviour, and the shells connectSSH opens
MaxCalls == 2
MaxShells == 2
\* the timeouts that pass in a behaviour of the remote backend
MaxWaits == 1

NL == "\n"
Markers == <<"__TRIAGENT_END_01__", "__TRIAGENT_END_02__", "__TRIAGENT_END_03__">>
\* `__TRIAGENT_END_${randomBytes(4).toString("hex")}__` of the n-th call
marker(n) == Markers[n]

\* the value of an expression, computed once: the definitions below bind
\* their text argument to its value (v) before they look into it
Only(S) == CHOOSE v \in S : TRUE

\* String.prototype.indexOf for a one-symbol needle, 0-based, -1 when absent
IndexOf(s, x) ==
    Only({IF \E i \in DOMAIN v : v[i] = x
          THEN (CHOOSE i \in DOMAIN v : v[i] = x /\ \A j \in 1..(i - 1) : v[j] # x) - 1
          ELSE -1 : v \in {s}})
\* String.prototype.slice(from, to) for 0 <= from
Slice(s, from, to) == SubSeq(s, from + 1, IF to < Len(s) THEN to ELSE Len(s))
\* String.prototype.includes
Includes(s, sub) ==
    \E v \in {s}, w \in {sub} :
        \E i \in 0..(Len(v) - Len(w)) : SubSeq(v, i + 1, i + Len(w)) = w
\* String.prototype.split("\n")
RECURSIVE Split(_)
Split(s) ==
    Only({IF IndexOf(v, NL) = -1
          THEN <<v>>
          ELSE <<Slice(v, 0, IndexOf(v, NL))>> \o Split(Slice(v, IndexOf(v, NL) + 1, Len(v)))
          : v \in {s}})
\* Array.prototype.join("\n")
RECURSIVE Join(_)
Join(lines) ==
    Only({IF v = <<>> THEN <<>>
          ELSE IF Len(v) = 1 THEN v[1]
          ELSE v[1] \o <<NL>> \o Join(Tail(v)) : v \in {lines}})
\* String.prototype.trim
RECURSIVE TrimStart(_)
TrimStart(s) ==
    Only({IF v # <<>> /\ IsSpace(v[1]) THEN TrimStart(Tail(v)) ELSE v : v \in {s}})
RECURSIVE TrimEnd(_)
TrimEnd(s) ==
    Only({IF v # <<>> /\ IsSpace(v[Len(v)]) THEN TrimEnd(SubSeq(v, 1, Len(v) - 1)) ELSE v
          : v \in {s}})
Trim(s) == TrimEnd(TrimStart(s))

\* a number in decimal, and parseInt(digits, 10)
DigitChars == <<"0","1","2","3","4","5","6","7","8","9">>
RECURSIVE ToDigits(_)
ToDigits(n) ==
    IF n < 10 THEN <<DigitChars[n + 1]>> ELSE ToDigits(n \div 10) \o <<DigitChars[(n % 10) + 1]>>
DigitValue(c) == (CHOOSE i \in DOMAIN DigitChars : DigitChars[i] = c) - 1
RECURSIVE parseInt(_)
parseInt(digits) ==
    Only({IF Len(v) = 1 THEN DigitValue(v[1])
          ELSE 10 * parseInt(SubSeq(v, 1, Len(v) - 1)) + DigitValue(v[Len(v)])
          : v \in {digits}})

\* afterMarker.match(new RegExp(`${marker}:(\\d+)`)): the positions where the
\* marker is followed by a colon and a digit, and the digits of group 1 of
\* the leftmost match
ExitCodeMatches(s, mk) ==
    UNION {{p \in 1..(Len(v) - 2) : v[p] = mk /\ v[p + 1] = ":" /\ v[p + 2] \in Digits}
           : v \in {s}}
\* the digits that start at position p of v
DigitsFrom(v, p) ==
    SubSeq(v, p, CHOOSE e \in p..Len(v) :
                    /\ \A i \in p..e : v[i] \in Digits
                    /\ e = Len(v) \/ v[e + 1] \notin Digits)
ExitCodeGroup(s, mk) ==
    Only({Only({DigitsFrom(v, p + 2)
                : p \in {q \in M : \A r \in M : q <= r}})
          : v \in {s}, M \in {ExitCodeMatches(s, mk)}})

\* `${command}; echo "${marker}:$?"`
wrappedCommand(command, mk) ==
    command \o <<";", " ", "e", "c", "h", "o", " ", "\"", mk, ":", "$", "?", "\"">>

\* faulty variant: the exit code is not read from the buffer
matchResult_exitZero(buffer, command, mk) ==
    LET markerIndex == IndexOf(buffer, mk)
        lines == Split(Slice(buffer, 0, markerIndex))
        kept == IF Includes(lines[1], Slice(command, 0, 20)) THEN Tail(lines) ELSE lines
    IN  [stdout |-> Trim(Join(kept)), stderr |-> <<>>, exitCode |-> 0]

\* execSSHCommand, the body of `if (markerIndex !== -1)`: the result parsed
\* from a buffer that holds the marker
matchResult(buffer, command, mk) ==
    LET markerIndex == IndexOf(buffer, mk)
        afterMarker == Slice(buffer, markerIndex, Len(buffer))
        exitCode == IF ExitCodeMatches(afterMarker, mk) # {}
                    THEN parseInt(ExitCodeGroup(afterMarker, mk))
                    ELSE 0
        lines == Split(Slice(buffer, 0, markerIndex))
        kept == IF Includes(lines[1], Slice(command, 0, 20)) THEN Tail(lines) ELSE lines
    IN  [stdout |-> Trim(Join(kept)), stderr |-> <<>>, exitCode |-> exitCode]

\* the commands given to execCommand in the model
Ls == <<"l", "s">>
EchoHi == <<"e", "c", "h", "o", " ", "h", "i">>
ExecCommands == {Ls, EchoHi}
\* what the remote shell may print for a command, and the exit status it may set
RemoteResults(command) ==
    IF command = EchoHi
    THEN {[out |-> <<"h", "i", NL>>, code |-> 0]}
    ELSE {[out |-> <<"t", "o", "o", "l", "s", NL>>, code |-> 2]}
\* what `sh -c` on the host or the sandbox driver may do with a command:
\* return a result, or throw
LocalOutcomes ==
    {[threw |-> FALSE, message |-> <<>>, stdout |-> <<"h", "i", NL>>, stderr |-> <<>>, exitCode |-> 0],
     [threw |-> FALSE, message |-> <<>>, stdout |-> <<>>, stderr |-> <<>>, exitCode |-> 1],
     [threw |-> FALSE, message |-> <<>>, stdout |-> <<>>, stderr |-> <<"n", "o">>, exitCode |-> 1],
     [threw |-> TRUE, message |-> <<"spawn failed">>, stdout |-> <<>>, stderr |-> <<>>, exitCode |-> 0]}

\* the default timeout of execSSHCommand, in ms
SSH_TIMEOUT_MS == 120000
NoShell == 0
\* no sandbox driver (null), and the instance `new Bashlet({...})` makes of
\* the options as the k-th instance of the process
NoInstance == [id |-> 0, mounts |-> "", timeout |-> 0]
Bashlet(options, k) ==
    [id |-> k, mounts |-> options.codebasePaths,
     timeout |-> IF options.timeout # 0 THEN options.timeout ELSE 120]
\* the options createSandbox is called with: the codebase mounted, and the
\* timeout in seconds, 0 for none given
SandboxOptions ==
    {[codebasePaths |-> "app", timeout |-> 0], [codebasePaths |-> "lib", timeout |-> 60]}
DefaultOptions == [codebasePaths |-> "app", timeout |-> 0]
NoResult == [stdout |-> <<>>, stderr |-> <<>>, exitCode |-> -1]
NoRan == [out |-> <<>>, code |-> -1]

VARIABLES
    bashletInstance, \* the sandbox driver instance, NoInstance for null
    hostMode,        \* boolean
    remoteConfig,    \* boolean: the remote configuration is set (not null)
    sshShell,        \* the current shell channel, NoShell for null
    shellReady,      \* boolean
    shellBuffer,     \* the text received from the shell channels
    shells,          \* every shell channel connectSSH opened, by number:
                     \* echo (the terminal echoes its input), open, input (the
                     \* lines written and not yet run, each with the number
                     \* of its call), stream (the text printed and not yet
                     \* delivered)
    calls            \* every execCommand call, by number: pc and, while the
                     \* call polls, command and startTime; ran is what the
                     \* remote shell did with the call's line (history);
                     \* serial is whether no other call was waiting when
                     \* the call started (history);
                     \* exitCode is that of the result once the call returned

sshVars ==
    <<bashletInstance, hostMode, remoteConfig, sshShell, shellReady, shellBuffer, shells, calls>>

\* the record of a call that has returned a result, and of one whose promise
\* was rejected
Returned(result) ==
    [pc |-> "returned", command |-> <<>>, startTime |-> 0, ran |-> NoRan, serial |-> TRUE,
     exitCode |-> result.exitCode]
Threw ==
    [pc |-> "threw", command |-> <<>>, startTime |-> 0, ran |-> NoRan, serial |-> TRUE,
     exitCode |-> -1]
\* the catch blocks of execCommand
Caught(message) == [stdout |-> <<>>, stderr |-> message, exitCode |-> 1]

\* faulty variant: the error of execSSHCommand is not caught
execCommand_sshThrows(command, n, outcome) ==
    IF remoteConfig
    THEN IF sshShell = NoShell \/ ~shellReady
         THEN [pc |-> "threw",
               result |-> [stdout |-> <<>>, exitCode |-> -1,
                           stderr |-> <<"SSH shell not connected">>],
               shellBuffer |-> shellBuffer, shells |-> shells]
         ELSE [pc |-> "polling", result |-> NoResult,
               shellBuffer |-> <<>>,
               shells |-> [shells EXCEPT ![sshShell].input =
                                            Append(@, [n |-> n, command |-> command])]]
    ELSE IF hostMode
    THEN [pc |-> "returned",
          result |-> IF outcome.threw THEN Caught(outcome.message)
                     ELSE [stdout |-> outcome.stdout, stderr |-> outcome.stderr,
                           exitCode |-> outcome.exitCode],
          shellBuffer |-> shellBuffer, shells |-> shells]
    ELSE IF bashletInstance = NoInstance
    THEN [pc |-> "threw",
          result |-> [stdout |-> <<>>, exitCode |-> -1,
                      stderr |-> <<"Sandbox not initialized. Call createSandbox first.">>],
          shellBuffer |-> shellBuffer, shells |-> shells]
    ELSE [pc |-> "returned",
          result |-> IF outcome.threw THEN Caught(outcome.message)
                     ELSE [stdout |-> outcome.stdout, stderr |-> outcome.stderr,
                           exitCode |-> outcome.exitCode],
          shellBuffer |-> shellBuffer, shells |-> shells]

\* faulty variant: without a shell the command runs on the local side
execCommand_fallsBack(command, n, outcome) ==
    IF remoteConfig /\ ~(sshShell = NoShell \/ ~shellReady)
    THEN [pc |-> "polling", result |-> NoResult,
          shellBuffer |-> <<>>,
          shells |-> [shells EXCEPT ![sshShell].input =
                                       Append(@, [n |-> n, command |-> command])]]
    ELSE IF hostMode \/ remoteConfig
    THEN [pc |-> "returned",
          result |-> IF outcome.threw THEN Caught(outcome.message)
                     ELSE [stdout |-> outcome.stdout, stderr |-> outcome.stderr,
                           exitCode |-> outcome.exitCode],
          shellBuffer |-> shellBuffer, shells |-> shells]
    ELSE IF bashletInstance = NoInstance
    THEN [pc |-> "threw",
          result |-> [stdout |-> <<>>, exitCode |-> -1,
                      stderr |-> <<"Sandbox not initialized. Call createSandbox first.">>],
          shellBuffer |-> shellBuffer, shells |-> shells]
    ELSE [pc |-> "returned",
          result |-> IF outcome.threw THEN Caught(outcome.message)
                     ELSE [stdout |-> outcome.stdout, stderr |-> outcome.stderr,
                           exitCode |-> outcome.exitCode],
          shellBuffer |-> shellBuffer, shells |-> shells]

\* faulty variant: every createSandbox builds a new driver
createSandbox_driver_rebuilds(useHost, options) ==
    IF useHost THEN bashletInstance
    ELSE Bashlet(options, bashletInstance.id + 1)

\* createSandbox without the remote option: the driver instance after it
createSandbox_driver(useHost, options) ==
    IF useHost THEN bashletInstance
    ELSE IF bashletInstance # NoInstance THEN bashletInstance
    ELSE Bashlet(options, 1)

\* execCommand up to its first await of the poll loop, as call number n:
\* pc, the result or the message thrown, and the buffer and the shells after it
execCommand(command, n, outcome) ==
    IF remoteConfig
    THEN IF sshShell = NoShell \/ ~shellReady
         THEN [pc |-> "returned", result |-> Caught(<<"SSH shell not connected">>),
               shellBuffer |-> shellBuffer, shells |-> shells]
         ELSE [pc |-> "polling", result |-> NoResult,
               shellBuffer |-> <<>>,
               shells |-> [shells EXCEPT ![sshShell].input =
                                            Append(@, [n |-> n, command |-> command])]]
    ELSE IF hostMode
    THEN [pc |-> "returned",
          result |-> IF outcome.threw THEN Caught(outcome.message)
                     ELSE [stdout |-> outcome.stdout, stderr |-> outcome.stderr,
                           exitCode |-> outcome.exitCode],
          shellBuffer |-> shellBuffer, shells |-> shells]
    ELSE IF bashletInstance = NoInstance
    THEN [pc |-> "threw",
          result |-> [stdout |-> <<>>, exitCode |-> -1,
                      stderr |-> <<"Sandbox not initialized. Call createSandbox first.">>],
          shellBuffer |-> shellBuffer, shells |-> shells]
    ELSE [pc |-> "returned",
          result |-> IF outcome.threw THEN Caught(outcome.message)
                     ELSE [stdout |-> outcome.stdout, stderr |-> outcome.stderr,
                           exitCode |-> outcome.exitCode],
          shellBuffer |-> shellBuffer, shells |-> shells]

\* the text the remote side prints for the line of call n, as the sequence
\* of pieces that arrive in separate data events at the finest: the echo of
\* the line when the terminal echoes, the command's output, and what
\* `echo "<marker>:$?"` prints, cut after the marker
Printed(echo, command, n, r) ==
    (IF echo THEN <<wrappedCommand(command, marker(n)) \o <<NL>>>> ELSE <<>>)
    \o (IF r.out # <<>> THEN <<r.out>> ELSE <<>>)
    \o <<(<<marker(n)>>), <<":">> \o ToDigits(r.code) \o <<NL>>>>

\* faulty variant: the loop has no timeout
execSSHCommand_poll_noTimeout(buffer, t, call, n) ==
    IF IndexOf(buffer, marker(n)) # -1
    THEN [pc |-> "returned", result |-> matchResult(buffer, call.command, marker(n))]
    ELSE [pc |-> "polling", result |-> NoResult]

\* one iteration of the poll loop of execSSHCommand for a call that started
\* at startTime: "wait" when the loop sleeps another 50 ms
execSSHCommand_poll(buffer, t, call, n) ==
    IF ~(t - call.startTime < SSH_TIMEOUT_MS)
    THEN [pc |-> "returned",
          result |-> [stdout |-> buffer, stderr |-> <<"Command timed out">>, exitCode |-> 124]]
    ELSE IF IndexOf(buffer, marker(n)) # -1
    THEN [pc |-> "returned", result |-> matchResult(buffer, call.command, marker(n))]
    ELSE [pc |-> "polling", result |-> NoResult]

(***************************************************************************)
(* Pure functions of the tools, applied to an input drawn from a bounded   *)
(* set: arg is the input, ret the value returned for it.                   *)
(***************************************************************************)
\* the pieces a filtered text is made of, at most
MaxPieces == 3

VARIABLES
    arg,             \* the input of the function
    ret              \* what the function returned; NoRet before it was applied

pureVars == <<arg, ret>>
NoRet == [done |-> FALSE]

\* the command lines classified in the model: a program, a verb and an
\* operand, and the two command lines of the ledger's examples
Programs == {<<"k", "u", "b", "e", "c", "t", "l">>, <<"g", "i", "t">>, <<"h", "e", "l", "m">>, <<"t", "o", "u", "c", "h">>}
Verbs == {<<"d", "e", "l", "e", "t", "e">>,
          <<"g", "e", "t">>,
          <<"s", "c", "a", "l", "e">>,
          <<"l", "a", "b", "e", "l">>,
          <<"p", "u", "s", "h">>,
          <<"u", "n", "i", "n", "s", "t", "a", "l", "l">>,
          <<"u", "p", "g", "r", "a", "d", "e">>,
          <<"m", "e", "r", "g", "e", "t", "o", "o", "l">>}
Operands == {<<"n", "a", "m", "e", "s", "p", "a", "c", "e">>, <<"p", "o", "d">>, <<"-", "-", "f", "o", "r", "c", "e">>, <<"x">>}
ClassifyInputs ==
    {p \o <<" ">> \o v \o <<" ">> \o o : p \in Programs, v \in Verbs, o \in Operands}
    \cup {Chars(CmdDeleteNs), Chars(CmdGetPods)}

\* what the cli tool decides for a command: whether it asks for approval,
\* and the riskLevel of its answer in that case (no riskLevel otherwise)
gate(command) ==
    IF isWriteCommand(command)
    THEN [done |-> TRUE, gated |-> TRUE, riskLevel |-> classifyRisk(command)]
    ELSE [done |-> TRUE, gated |-> FALSE, riskLevel |-> ""]

(***************************************************************************)
(* filterSensitiveData of the cli tool: three String.prototype.replace     *)
(* calls with global regular expressions.  A match is the one the          *)
(* backtracking matcher finds first: leftmost, greedy quantifiers longest  *)
(* first.  Positions are 1-based; a match is given by the position after   *)
(* its last character, 0 standing for no match.                            *)
(***************************************************************************)
\* s holds the text w at position i; HasAtI ignores case (w in lower case)
HasAt(s, i, w) == i + Len(w) - 1 <= Len(s) /\ SubSeq(s, i, i + Len(w) - 1) = w
HasAtI(s, i, w) == i + Len(w) - 1 <= Len(s) /\ ToLower(SubSeq(s, i, i + Len(w) - 1)) = w
\* the position after the longest run, from position i on, of characters in
\* the class cs (of characters outside cs when negated)
RunEnd(s, i, cs, negated) ==
    CHOOSE e \in i..(Len(s) + 1) :
        /\ \A j \in i..(e - 1) : (s[j] \in cs) # negated
        /\ e = Len(s) + 1 \/ ((s[e] \in cs) = negated)

\* (password|secret|token|key|credential)
SECRET_WORDS ==
    <<<<"p", "a", "s", "s", "w", "o", "r", "d">>,
      <<"s", "e", "c", "r", "e", "t">>,
      <<"t", "o", "k", "e", "n">>,
      <<"k", "e", "y">>,
      <<"c", "r", "e", "d", "e", "n", "t", "i", "a", "l">>>>
\* [\s:=], ["'] and the characters [^\s"'\n] excludes
SecretSeparators == {" ", "\t", "\n", ":", "="}
Quotes == {"\"", "'"}
NotInSecretValue == {" ", "\t", "\n", "\"", "'"}
WhiteSpace == {" ", "\t", "\n"}

\* the word of SECRET_WORDS at position i, 0 for none
secretWordAt(s, i) ==
    IF \E k \in DOMAIN SECRET_WORDS : HasAtI(s, i, SECRET_WORDS[k])
    THEN CHOOSE k \in DOMAIN SECRET_WORDS :
            /\ HasAtI(s, i, SECRET_WORDS[k])
            /\ \A h \in 1..(k - 1) : ~HasAtI(s, i, SECRET_WORDS[h])
    ELSE 0

\* /(password|secret|token|key|credential)[\s:=]+["']?[^\s"'\n]+["']?/gi at
\* position i: the separators are taken longest first, then the opening
\* quote if there is one, then the longest value, then a closing quote
secretMatchEnd(s, i) ==
    IF secretWordAt(s, i) = 0 THEN 0
    ELSE LET j == i + Len(SECRET_WORDS[secretWordAt(s, i)])
             m == RunEnd(s, j, SecretSeparators, FALSE)
             valueEnd(q) == RunEnd(s, q, NotInSecretValue, TRUE)
             try(p) == IF p <= Len(s) /\ s[p] \in Quotes /\ valueEnd(p + 1) > p + 1
                       THEN valueEnd(p + 1)
                       ELSE IF p <= Len(s) /\ valueEnd(p) > p THEN valueEnd(p)
                       ELSE 0
             ps == {p \in (j + 1)..m : try(p) # 0}
         IN  IF ps = {} THEN 0
             ELSE LET p == CHOOSE x \in ps : \A y \in ps : y <= x
                      v == try(p)
                  IN  IF v <= Len(s) /\ s[v] \in Quotes THEN v + 1 ELSE v

\* .replace(<the pattern above>, "$1: [REDACTED]") from position i on
RECURSIVE redactSecretsFrom(_, _)
redactSecretsFrom(s, i) ==
    IF i > Len(s) THEN <<>>
    ELSE IF secretMatchEnd(s, i) # 0
    THEN SubSeq(s, i, i + Len(SECRET_WORDS[secretWordAt(s, i)]) - 1)
         \o <<":", " ", "[", "R", "E", "D", "A", "C", "T", "E", "D", "]">>
         \o redactSecretsFrom(s, secretMatchEnd(s, i))
    ELSE <<s[i]>> \o redactSecretsFrom(s, i + 1)

\* the replacement texts "Bearer [REDACTED]" and "[REDACTED CERTIFICATE/KEY]"
BearerPlaceholder ==
    <<"B", "e", "a", "r", "e", "r", " ", "[", "R", "E", "D", "A", "C", "T", "E", "D", "]">>
PemPlaceholder ==
    <<"[", "R", "E", "D", "A", "C", "T", "E", "D", " ", "C", "E", "R", "T", "I", "F", "I", "C", "A", "T", "E", "/", "K", "E", "Y", "]">>

\* /Bearer\s+[^\s]+/gi at position i
bearerMatchEnd(s, i) ==
    IF ~HasAtI(s, i, <<"b", "e", "a", "r", "e", "r">>) THEN 0
    ELSE LET j == i + 6
             m == RunEnd(s, j, WhiteSpace, FALSE)
             v == RunEnd(s, m, WhiteSpace, TRUE)
         IN  IF m > j /\ v > m THEN v ELSE 0

\* .replace(/Bearer\s+[^\s]+/gi, "Bearer [REDACTED]") from position i on
RECURSIVE redactBearerFrom(_, _)
redactBearerFrom(s, i) ==
    IF i > Len(s) THEN <<>>
    ELSE IF bearerMatchEnd(s, i) # 0
    THEN BearerPlaceholder
         \o redactBearerFrom(s, bearerMatchEnd(s, i))
    ELSE <<s[i]>> \o redactBearerFrom(s, i + 1)

\* -----BEGIN[^-]+----- and -----END[^-]+----- at position i
pemLineEnd(s, i, word) ==
    IF ~HasAt(s, i, word) THEN 0
    ELSE LET j == i + Len(word)
             l == RunEnd(s, j, {"-"}, TRUE)
         IN  IF l > j /\ HasAt(s, l, <<"-", "-", "-", "-", "-">>) THEN l + 5 ELSE 0
\* /-----BEGIN[^-]+-----[\s\S]*?-----END[^-]+-----/g at position i: the
\* body is the shortest that an END line follows
pemMatchEnd(s, i) ==
    LET b == pemLineEnd(s, i, <<"-", "-", "-", "-", "-", "B", "E", "G", "I", "N">>)
        ends == IF b = 0 THEN {}
                ELSE {q \in b..Len(s) : pemLineEnd(s, q, <<"-", "-", "-", "-", "-", "E", "N", "D">>) # 0}
    IN  IF b = 0 \/ ends = {} THEN 0
        ELSE pemLineEnd(s, CHOOSE q \in ends : \A r \in ends : q <= r, <<"-", "-", "-", "-", "-", "E", "N", "D">>)

\* .replace(<the pattern above>, "[REDACTED CERTIFICATE/KEY]") from position i on
RECURSIVE redactPemFrom(_, _)
redactPemFrom(s, i) ==
    IF i > Len(s) THEN <<>>
    ELSE IF pemMatchEnd(s, i) # 0
    THEN PemPlaceholder
         \o redactPemFrom(s, pemMatchEnd(s, i))
    ELSE <<s[i]>> \o redactPemFrom(s, i + 1)

filterSensitiveData(output) ==
    redactPemFrom(redactBearerFrom(redactSecretsFrom(output, 1), 1), 1)

\* the texts filtered in the model: up to MaxPieces of these pieces in a row
BearerHeader == <<"A", "u", "t", "h", "o", "r", "i", "z", "a", "t", "i", "o", "n", ":", " ", "B", "e", "a", "r", "e", "r", " ", "a", "b", "c", "1", "2", "3">>
BearerValue == <<"a", "b", "c", "1", "2", "3">>
PemBlock ==
    <<"-", "-", "-", "-", "-", "B", "E", "G", "I", "N", " ", "X", "-", "-", "-", "-", "-", "\n", "M", "I", "I", "B", "\n", "-", "-", "-", "-", "-", "E", "N", "D", " ", "X", "-", "-", "-", "-", "-">>
PemBody == <<"M", "I", "I", "B">>
FilterPieces ==
    <<BearerHeader,
      PemBlock,
      <<"p", "a", "s", "s", "w", "o", "r", "d", "=", "h", "u", "n", "t", "e", "r", "2">>,
      <<"t", "o", "k", "e", "n", "=", "\"", "a", "b", "c", "\"", ",">>,
      <<"S", "S", "L", "_", "K", "E", "Y", "=">>,
      <<"o", "k">>,
      <<" ">>>>
RECURSIVE Concat(_)
Concat(pieces) == IF pieces = <<>> THEN <<>> ELSE Head(pieces) \o Concat(Tail(pieces))
FilterInputs ==
    {Concat([i \in DOMAIN ks |-> FilterPieces[ks[i]]]) :
        ks \in UNION {[1..n -> DOMAIN FilterPieces] : n \in 1..MaxPieces}}

\* no error field in the result of the tool
NoError == <<>>

\* faulty variant: on a non-zero exit the texts are returned as received
cliTool_report_rawOnFailure(pc, result) ==
    IF pc = "threw"
    THEN [thrown |-> FALSE, success |-> FALSE, output |-> <<>>, error |-> result.stderr]
    ELSE IF result.exitCode # 0
    THEN [thrown |-> FALSE, success |-> FALSE, output |-> result.stdout,
          error |-> IF result.stderr # <<>> THEN result.stderr
                    ELSE <<"Command failed with exit code ">> \o ToDigits(result.exitCode)]
    ELSE [thrown |-> FALSE, success |-> TRUE,
          output |-> filterSensitiveData(result.stdout),
          error |-> IF result.stderr # <<>> THEN filterSensitiveData(result.stderr)
                    ELSE NoError]

\* faulty variant: an error thrown by execCommand is thrown on by the tool
cliTool_report_rethrows(pc, result) ==
    IF pc = "threw"
    THEN [thrown |-> TRUE, success |-> FALSE, output |-> <<>>, error |-> result.stderr]
    ELSE IF result.exitCode # 0
    THEN [thrown |-> FALSE, success |-> FALSE,
          output |-> IF result.stdout # <<>> THEN filterSensitiveData(result.stdout) ELSE <<>>,
          error |-> IF result.stderr # <<>> THEN result.stderr
                    ELSE <<"Command failed with exit code ">> \o ToDigits(result.exitCode)]
    ELSE [thrown |-> FALSE, success |-> TRUE,
          output |-> filterSensitiveData(result.stdout),
          error |-> IF result.stderr # <<>> THEN filterSensitiveData(result.stderr)
                    ELSE NoError]

\* cliTool.execute from `await execCommand(command)` on: the value the tool
\* returns for what execCommand did (pc "threw": its promise was rejected,
\* with the message in result.stderr).  thrown: the tool's own promise is
\* rejected; the try block spans the whole body, so it never is.
cliTool_report(pc, result) ==
    IF pc = "threw"
    THEN [thrown |-> FALSE, success |-> FALSE, output |-> <<>>, error |-> result.stderr]
    ELSE IF result.exitCode # 0
    THEN [thrown |-> FALSE, success |-> FALSE,
          output |-> IF result.stdout # <<>> THEN filterSensitiveData(result.stdout) ELSE <<>>,
          error |-> IF result.stderr # <<>> THEN result.stderr
                    ELSE <<"Command failed with exit code ">> \o ToDigits(result.exitCode)]
    ELSE [thrown |-> FALSE, success |-> TRUE,
          output |-> filterSensitiveData(result.stdout),
          error |-> IF result.stderr # <<>> THEN filterSensitiveData(result.stderr)
                    ELSE NoError]

\* what execCommand hands to the tool in the model: results with these
\* texts and exit codes, and rejections
ReportTexts ==
    {<<>>, <<"o", "k">>, <<"p", "a", "s", "s", "w", "o", "r", "d", "=", "h", "u", "n", "t", "e", "r", "2">>,
     BearerHeader, PemBlock}
ReportInputs ==
    {[pc |-> "returned", result |-> [stdout |-> o, stderr |-> e, exitCode |-> c]] :
        o \in ReportTexts, e \in ReportTexts, c \in {0, 1, 124}}
    \cup {[pc |-> "threw", result |-> [stdout |-> <<>>, stderr |-> m, exitCode |-> -1]] :
            m \in {<<"Sandbox not initialized. Call createSandbox first.">>}}

(***************************************************************************)
(* The remediation tool: suggest, execute, rollback and status over its    *)
(* own map of pending approvals.                                           *)
(***************************************************************************)
\* the number of suggest calls the model follows
MaxSuggests == 2
\* the execute operations of the remediation tool that await executeAction
\* at a time, at most
MaxInFlight == 2

VARIABLES
    pendingApprovals,  \* Map<approvalId, {action, token, expiresAt}>
    suggests,          \* the number of suggest calls that stored an approval
    disclosed,         \* history: the tokens a tool result has shown to the agent
    reached,           \* history: the calls that reached executeAction
    inFlight,          \* the execute operations that await executeAction, in
                       \* the order they started: foundApproval (approvalId
                       \* and action) and the token they were called with
    remOut             \* the result of the last call of the tool

remVars == <<pendingApprovals, suggests, disclosed, reached, inFlight, remOut>>

\* randomBytes(16) and randomBytes(8) of a suggest call, taken never to
\* repeat: the k-th suggest draws value 2k-1 for its token and 2k for its id
generateApprovalToken(k) == 2 * k + 1
generateApprovalId(k) == 2 * k + 2
RemTokenValues == {generateApprovalToken(k) : k \in 0..(MaxSuggests - 1)}

NoAction == [type |-> "", kind |-> ""]
RemediationActions ==
    {[type |-> "restart_pod", kind |-> "Pod"],
     [type |-> "delete_resource", kind |-> "Deployment"],
     [type |-> "apply_config", kind |-> "Deployment"]}

getRiskLevel(action) ==
    CASE action.type = "restart_pod" -> "low"
      [] action.type = "scale_deployment" -> "medium"
      [] action.type = "rollback_deployment" -> "medium"
      [] action.type = "delete_resource" -> IF action.kind = "Pod" THEN "medium" ELSE "high"
      [] action.type = "apply_config" -> "high"
      [] OTHER -> "critical"

\* the kubectl command executeAction builds, without the names; NoCommand
\* when it returns before execAsync
NoCommand == <<>>
actionCommand(action) ==
    CASE action.type = "restart_pod" ->
            IF action.kind = "Pod" THEN <<"kubectl", "delete", "pod">>
            ELSE <<"kubectl", "rollout", "restart">>
      [] action.type = "scale_deployment" -> <<"kubectl", "scale">>
      [] action.type = "rollback_deployment" -> <<"kubectl", "rollout", "undo">>
      [] action.type = "delete_resource" -> <<"kubectl", "delete">>
      [] OTHER -> NoCommand

\* executeAction: ok is whether the kubectl process exits without an error
executeAction(action, ok) ==
    [command |-> actionCommand(action),
     success |-> actionCommand(action) # NoCommand /\ ok]

\* one call that reached executeAction: the operation, the command it ran,
\* and what is known of the token the caller presented
Reach(operation, command, token, t) ==
    [operation |-> operation,
     command |-> command,
     presented |-> token # NoToken,
     issued |-> \E id \in DOMAIN pendingApprovals : pendingApprovals[id].token = token,
     unexpired |-> \E id \in DOMAIN pendingApprovals :
                     pendingApprovals[id].token = token /\ ~Expired(t, pendingApprovals[id]),
     disclosed |-> token \in disclosed]

\* the tool's answers by operation.  map: pendingApprovals after the call;
\* reach: the executeAction call made, if any; shown: the token in the result
NoReach == {}
remediation_suggest(P, t, action, k) ==
    IF action = NoAction
    THEN [map |-> P, stored |-> FALSE, shown |-> NoToken,
          out |-> [success |-> FALSE, requiresApproval |-> FALSE, approvalId |-> NoId,
                   error |-> "Action is required for suggest operation"]]
    ELSE [map |-> MapSet(P, generateApprovalId(k),
                         [action |-> action, token |-> generateApprovalToken(k),
                          expiresAt |-> t + EXPIRATION_MS]),
          stored |-> TRUE, shown |-> generateApprovalToken(k),
          out |-> [success |-> TRUE, requiresApproval |-> TRUE,
                   approvalId |-> generateApprovalId(k), error |-> ""]]

Failure(message) ==
    [success |-> FALSE, requiresApproval |-> FALSE, approvalId |-> NoId, error |-> message]
Success == [success |-> TRUE, requiresApproval |-> FALSE, approvalId |-> NoId, error |-> ""]

\* the execute operation up to `await executeAction(foundApproval.action)`:
\* found is whether it gets there, with foundApproval; otherwise out is the
\* result it returns
NoApproval == [approvalId |-> NoId, action |-> NoAction]
remediation_execute(P, t, approvalToken) ==
    IF approvalToken = NoToken
    THEN [map |-> P, found |-> FALSE, foundApproval |-> NoApproval,
          out |-> Failure("Approval token is required to execute actions")]
    ELSE IF \E id \in DOMAIN P : P[id].token = approvalToken
    THEN LET approvalId == CHOOSE id \in DOMAIN P : P[id].token = approvalToken
         IN  IF Expired(t, P[approvalId])
             THEN [map |-> MapDelete(P, approvalId), found |-> FALSE,
                   foundApproval |-> NoApproval,
                   out |-> Failure("Approval token has expired. Please suggest the action again.")]
             ELSE [map |-> P, found |-> TRUE,
                   foundApproval |-> [approvalId |-> approvalId, action |-> P[approvalId].action],
                   out |-> Success]
    ELSE [map |-> P, found |-> FALSE, foundApproval |-> NoApproval,
          out |-> Failure("Invalid approval token. Please suggest the action first.")]

\* the execute operation from the return of executeAction on
remediation_execute_resume(P, foundApproval, ok) ==
    [map |-> MapDelete(P, foundApproval.approvalId),
     out |-> IF executeAction(foundApproval.action, ok).success
             THEN Success ELSE Failure("Action failed")]

remediation_rollback(P, action, ok) ==
    IF action = NoAction
    THEN [map |-> P, ran |-> FALSE, action |-> NoAction,
          out |-> Failure("Action with target is required for rollback")]
    ELSE LET rollbackAction == [type |-> "rollback_deployment", kind |-> action.kind]
         IN  [map |-> P, ran |-> TRUE, action |-> rollbackAction,
              out |-> IF executeAction(rollbackAction, ok).success
                      THEN Success ELSE Failure("Rollback failed")]

\* ids: the approvals listed
remediation_status(P, t) ==
    [map |-> P,
     out |-> [success |-> TRUE, requiresApproval |-> FALSE, approvalId |-> NoId, error |-> "",
              ids |-> {id \in DOMAIN P : t < P[id].expiresAt}]]

nonLedgerVars == <<sshVars, pureVars, remVars>>
nonSshVars == <<ledgerVars, pureVars, remVars>>
nonRemVars == <<ledgerVars, sshVars, pureVars>>
vars == <<now, ledgerVars, sshVars, pureVars, remVars>>

(***************************************************************************)
(* The state machine: the agent calls the cli tool, the approval UI calls  *)
(* approve and reject, the store's read accessors are called, time passes. *)
(***************************************************************************)
LedgerInit ==
    /\ now = 0
    /\ pending = EmptyMap
    /\ approvedTokens = EmptyMap
    /\ rng = 0
    /\ requests = EmptyMap
    /\ uses = EmptyMap
    /\ rejected = {}
    /\ ungated = FALSE

\* no createSandbox yet
BackendInit ==
    /\ bashletInstance = NoInstance
    /\ hostMode = FALSE
    /\ remoteConfig = FALSE
    /\ sshShell = NoShell
    /\ shellReady = FALSE
    /\ shellBuffer = <<>>
    /\ shells = <<>>
    /\ calls = <<>>

\* no call of the remediation tool yet
RemediationInit ==
    /\ pendingApprovals = EmptyMap
    /\ suggests = 0
    /\ disclosed = {}
    /\ reached = NoReach
    /\ inFlight = <<>>
    /\ remOut = Success

Init ==
    /\ LedgerInit
    /\ BackendInit
    /\ RemediationInit
    /\ arg = <<>>
    /\ ret = NoRet

\* the model draws at most 2 * MaxRequests random values
CanRequest == rng + 2 <= 2 * MaxRequests

\* one more successful validation of a token (2 stands for "more than once")
Used(u, token) == MapSet(u, token, IF token \in DOMAIN u THEN 2 ELSE 1)

\* time passes
Tick ==
    /\ now + TickMs <= MaxTicks * TickMs
    /\ now' = now + TickMs
    /\ UNCHANGED <<ledgerVars, nonLedgerVars>>

\* the approval UI: handleApprovalDecision(true)
ApproveCall(id) ==
    LET R == approve(Store, now, id)
    IN  /\ pending' = R.pending
        /\ approvedTokens' = R.approvedTokens
        /\ UNCHANGED <<now, rng, requests, uses, rejected, ungated>>
        /\ UNCHANGED nonLedgerVars

\* the approval UI: handleApprovalDecision(false)
RejectCall(id) ==
    LET R == reject(Store, id)
    IN  /\ pending' = R.pending
        /\ approvedTokens' = R.approvedTokens
        /\ rejected' = IF id \in DOMAIN pending THEN rejected \cup {id} ELSE rejected
        /\ UNCHANGED <<now, rng, requests, uses, ungated>>
        /\ UNCHANGED nonLedgerVars

GetPendingCall(id) ==
    LET R == getPending(Store, now, id)
    IN  /\ pending' = R.pending
        /\ approvedTokens' = R.approvedTokens
        /\ UNCHANGED <<now, rng, requests, uses, rejected, ungated>>
        /\ UNCHANGED nonLedgerVars

GetAllPendingCall ==
    LET R == getAllPending(Store, now)
    IN  /\ pending' = R.pending
        /\ approvedTokens' = R.approvedTokens
        /\ UNCHANGED <<now, rng, requests, uses, rejected, ungated>>
        /\ UNCHANGED nonLedgerVars

ClearExpiredCall ==
    LET R == clearExpired(Store, now)
    IN  /\ pending' = R.pending
        /\ approvedTokens' = R.approvedTokens
        /\ UNCHANGED <<now, rng, requests, uses, rejected, ungated>>
        /\ UNCHANGED nonLedgerVars

\* the agent calls the cli tool that takes an approvalToken
CliCall(command, approvalToken, outcome) ==
    LET R == cliTool_execute(Store, now, command, approvalToken, rng, outcome)
    IN  /\ R.created => CanRequest
        /\ pending' = R.pending
        /\ approvedTokens' = R.approvedTokens
        /\ rng' = IF R.created THEN rng + 2 ELSE rng
        /\ requests' = IF R.created THEN MapSet(requests, R.approval.id, R.approval)
                       ELSE requests
        /\ uses' = IF R.validated THEN Used(uses, approvalToken) ELSE uses
        /\ ungated' = (ungated \/ (R.executed /\ IsWrite[command] /\ ~R.validated))
        /\ UNCHANGED <<now, rejected>>
        /\ UNCHANGED nonLedgerVars

\* the agent calls the cli tool that takes an approved flag
CliApprovedCall(command, approved, outcome) ==
    LET R == cliTool_execute_approved(Store, command, approved, outcome)
    IN  /\ pending' = R.pending
        /\ approvedTokens' = R.approvedTokens
        /\ ungated' = (ungated \/ (R.executed /\ IsWrite[command] /\ ~R.validated))
        /\ UNCHANGED <<now, rng, requests, uses, rejected>>
        /\ UNCHANGED nonLedgerVars

Next ==
    \/ Tick
    \/ \E id \in IdValues : ApproveCall(id)
    \/ \E id \in IdValues : RejectCall(id)
    \/ \E id \in IdValues : GetPendingCall(id)
    \/ GetAllPendingCall
    \/ ClearExpiredCall
    \/ \E command \in CallCommands, approvalToken \in {NoToken} \cup TokenValues,
          outcome \in BackendOutcomes : CliCall(command, approvalToken, outcome)
    \/ \E command \in CallCommands, approved \in BOOLEAN, outcome \in BackendOutcomes :
          CliApprovedCall(command, approved, outcome)

Spec == Init /\ [][Next]_vars

\* createSandbox(options).  In remote mode the action ends where the
\* workspace command of createSandbox has returned with exit code 0; the
\* buffer it leaves, which the next execSSHCommand clears before use, is
\* taken as empty.  echo: whether the terminal of the new shell echoes.
CreateSandbox(remote, useHost, echo, options) ==
    /\ hostMode' = useHost
    /\ IF remote
       THEN /\ Len(shells) < MaxShells
            /\ remoteConfig' = TRUE
            /\ shells' = Append(shells, [echo |-> echo, open |-> TRUE,
                                         input |-> <<>>, stream |-> <<>>])
            /\ sshShell' = Len(shells) + 1
            /\ shellReady' = TRUE
            /\ shellBuffer' = <<>>
            /\ UNCHANGED bashletInstance
       ELSE /\ bashletInstance' = createSandbox_driver(useHost, options)
            /\ UNCHANGED <<remoteConfig, sshShell, shellReady, shellBuffer, shells>>
    /\ UNCHANGED <<now, calls>>
    /\ UNCHANGED nonSshVars

\* an ended channel: nothing is read from it or delivered by it any more
ClosedShell == [echo |-> FALSE, open |-> FALSE, input |-> <<>>, stream |-> <<>>]

\* disconnectSSH()
DisconnectSSH ==
    /\ shells' = IF sshShell # NoShell THEN [shells EXCEPT ![sshShell] = ClosedShell]
                 ELSE shells
    /\ sshShell' = NoShell
    /\ shellReady' = FALSE
    /\ shellBuffer' = <<>>
    /\ UNCHANGED <<now, bashletInstance, hostMode, remoteConfig, calls>>
    /\ UNCHANGED nonSshVars

\* the calls whose poll loop is waiting
Polling == {n \in DOMAIN calls : calls[n].pc = "polling"}

\* a caller starts execCommand(command)
ExecCommandCall(command, outcome) ==
    LET n == Len(calls) + 1
        R == execCommand(command, n, outcome)
    IN  /\ n <= MaxCalls
        /\ shellBuffer' = R.shellBuffer
        /\ shells' = R.shells
        /\ calls' = Append(calls,
                           IF R.pc = "polling"
                           THEN [pc |-> "polling", command |-> command, startTime |-> now,
                                 ran |-> NoRan, serial |-> Polling = {},
                                 exitCode |-> -1]
                           ELSE IF R.pc = "threw" THEN Threw
                           ELSE Returned(R.result))
        /\ UNCHANGED <<now, bashletInstance, hostMode, remoteConfig, sshShell, shellReady>>
        /\ UNCHANGED nonSshVars

\* the poll loop of call n wakes up and returns
Poll(n) ==
    LET R == execSSHCommand_poll(shellBuffer, now, calls[n], n)
    IN  /\ n \in DOMAIN calls
        /\ calls[n].pc = "polling"
        /\ R.pc = "returned"
        /\ calls' = [calls EXCEPT ![n] = Returned(R.result)]
        /\ UNCHANGED <<now, bashletInstance, hostMode, remoteConfig, sshShell, shellReady,
                       shellBuffer, shells>>
        /\ UNCHANGED nonSshVars

\* the remote shell of channel sh reads the next line written to it and runs
\* it, with result r
RemoteRun(sh, r) ==
    LET line == Head(shells[sh].input)
    IN  /\ sh \in DOMAIN shells
        /\ shells[sh].open
        /\ shells[sh].input # <<>>
        /\ r \in RemoteResults(line.command)
        /\ shells' = [shells EXCEPT
                        ![sh].input = Tail(@),
                        ![sh].stream = @ \o Printed(shells[sh].echo, line.command, line.n, r)]
        /\ calls' = IF calls[line.n].pc = "polling"
                    THEN [calls EXCEPT ![line.n].ran = r]
                    ELSE calls
        /\ UNCHANGED <<now, bashletInstance, hostMode, remoteConfig, sshShell, shellReady,
                       shellBuffer>>
        /\ UNCHANGED nonSshVars

\* a data event of channel sh: the handlers that connectSSH attached append
\* the next piece to the buffer
Data(sh) ==
    /\ sh \in DOMAIN shells
    /\ shells[sh].open
    /\ shells[sh].stream # <<>>
    /\ shellBuffer' = shellBuffer \o Head(shells[sh].stream)
    /\ shells' = [shells EXCEPT ![sh].stream = Tail(@)]
    /\ UNCHANGED <<now, bashletInstance, hostMode, remoteConfig, sshShell, shellReady, calls>>
    /\ UNCHANGED nonSshVars

\* time passes while calls wait
TimeoutTick ==
    /\ now + SSH_TIMEOUT_MS <= MaxWaits * SSH_TIMEOUT_MS
    /\ now' = now + SSH_TIMEOUT_MS
    /\ UNCHANGED <<ledgerVars, nonLedgerVars>>

\* the remote backend: createSandbox is called with the remote option only
NextSSH ==
    \/ TimeoutTick
    \/ \E echo \in BOOLEAN : CreateSandbox(TRUE, FALSE, echo, DefaultOptions)
    \/ DisconnectSSH
    \/ \E command \in ExecCommands, outcome \in LocalOutcomes : ExecCommandCall(command, outcome)
    \/ \E n \in 1..MaxCalls : Poll(n)
    \/ \E sh \in 1..MaxShells, r \in UNION {RemoteResults(command) : command \in ExecCommands} :
          RemoteRun(sh, r)
    \/ \E sh \in 1..MaxShells : Data(sh)

SpecSSH == Init /\ [][NextSSH]_vars

\* a caller starts execCommand(command) early enough for the clock of the
\* model to reach the end of the call's timeout
StartCall(command, outcome) ==
    /\ now + SSH_TIMEOUT_MS <= MaxWaits * SSH_TIMEOUT_MS
    /\ ExecCommandCall(command, outcome)

\* the remote backend with time passing and the timers of the poll loops
\* firing: the clock advances, and a loop whose condition or marker test
\* lets it return does return.  The remote side and the callers of
\* createSandbox and disconnectSSH are under no obligation.
NextSSHLive ==
    \/ TimeoutTick
    \/ \E echo \in BOOLEAN : CreateSandbox(TRUE, FALSE, echo, DefaultOptions)
    \/ DisconnectSSH
    \/ \E command \in ExecCommands, outcome \in LocalOutcomes : StartCall(command, outcome)
    \/ \E n \in 1..MaxCalls : Poll(n)
    \/ \E sh \in 1..MaxShells, r \in UNION {RemoteResults(command) : command \in ExecCommands} :
          RemoteRun(sh, r)
    \/ \E sh \in 1..MaxShells : Data(sh)

SpecSSHLive ==
    /\ Init
    /\ [][NextSSHLive]_vars
    /\ WF_vars(TimeoutTick)
    /\ \A n \in 1..MaxCalls : WF_vars(Poll(n))

\* the backends side by side: createSandbox is called with every combination
\* of the remote and useHost options, on terminals that do not echo
NextBackend ==
    \/ TimeoutTick
    \/ \E remote \in BOOLEAN, useHost \in BOOLEAN, options \in SandboxOptions :
          CreateSandbox(remote, useHost, FALSE, options)
    \/ DisconnectSSH
    \/ \E command \in ExecCommands, outcome \in LocalOutcomes : ExecCommandCall(command, outcome)
    \/ \E n \in 1..MaxCalls : Poll(n)
    \/ \E sh \in 1..MaxShells, r \in UNION {RemoteResults(command) : command \in ExecCommands} :
          RemoteRun(sh, r)
    \/ \E sh \in 1..MaxShells : Data(sh)

SpecBackend == Init /\ [][NextBackend]_vars

\* the classifier applied to one command line
InitClassify ==
    /\ LedgerInit
    /\ BackendInit
    /\ RemediationInit
    /\ arg \in ClassifyInputs
    /\ ret = NoRet

Classify ==
    /\ ret = NoRet
    /\ ret' = gate(arg)
    /\ UNCHANGED <<now, arg, ledgerVars, sshVars, remVars>>

NextClassify == Classify

SpecClassify == InitClassify /\ [][NextClassify]_vars

\* filterSensitiveData applied to one text
InitFilter ==
    /\ LedgerInit
    /\ BackendInit
    /\ RemediationInit
    /\ arg \in FilterInputs
    /\ ret = NoRet

Filter ==
    /\ ret = NoRet
    /\ ret' = [done |-> TRUE, text |-> filterSensitiveData(arg)]
    /\ UNCHANGED <<now, arg, ledgerVars, sshVars, remVars>>

NextFilter == Filter

SpecFilter == InitFilter /\ [][NextFilter]_vars

\* the cli tool reporting one outcome of execCommand
InitReport ==
    /\ LedgerInit
    /\ BackendInit
    /\ RemediationInit
    /\ arg \in ReportInputs
    /\ ret = NoRet

Report ==
    /\ ret = NoRet
    /\ ret' = [done |-> TRUE, out |-> cliTool_report(arg.pc, arg.result)]
    /\ UNCHANGED <<now, arg, ledgerVars, sshVars, remVars>>

NextReport == Report

SpecReport == InitReport /\ [][NextReport]_vars

\* the agent calls the remediation tool
SuggestCall(action) ==
    LET R == remediation_suggest(pendingApprovals, now, action, suggests)
    IN  /\ R.stored => suggests < MaxSuggests
        /\ pendingApprovals' = R.map
        /\ suggests' = IF R.stored THEN suggests + 1 ELSE suggests
        /\ disclosed' = IF R.shown # NoToken THEN disclosed \cup {R.shown} ELSE disclosed
        /\ remOut' = R.out
        /\ UNCHANGED <<now, reached, inFlight>>
        /\ UNCHANGED nonRemVars

\* the sequence without its i-th element
Without(seq, i) == SubSeq(seq, 1, i - 1) \o SubSeq(seq, i + 1, Len(seq))

\* an execute operation starts and returns at once or awaits executeAction
ExecuteCall(approvalToken) ==
    LET R == remediation_execute(pendingApprovals, now, approvalToken)
    IN  /\ R.found => Len(inFlight) < MaxInFlight
        /\ pendingApprovals' = R.map
        /\ reached' = IF R.found
                      THEN reached \cup {Reach("execute", actionCommand(R.foundApproval.action),
                                               approvalToken, now)}
                      ELSE reached
        /\ inFlight' = IF R.found
                       THEN Append(inFlight, [approvalId |-> R.foundApproval.approvalId,
                                              action |-> R.foundApproval.action,
                                              token |-> approvalToken])
                       ELSE inFlight
        /\ remOut' = IF R.found THEN remOut ELSE R.out
        /\ UNCHANGED <<now, suggests, disclosed>>
        /\ UNCHANGED nonRemVars

\* executeAction of the i-th waiting execute operation returns, and the
\* operation with it
ExecuteReturn(i, ok) ==
    /\ i \in DOMAIN inFlight
    /\ LET R == remediation_execute_resume(pendingApprovals, inFlight[i], ok)
       IN  /\ pendingApprovals' = R.map
           /\ remOut' = R.out
    /\ inFlight' = Without(inFlight, i)
    /\ UNCHANGED <<now, suggests, disclosed, reached>>
    /\ UNCHANGED nonRemVars

RollbackCall(action, approvalToken, ok) ==
    LET R == remediation_rollback(pendingApprovals, action, ok)
    IN  /\ pendingApprovals' = R.map
        /\ reached' = IF R.ran
                      THEN reached \cup {Reach("rollback", actionCommand(R.action), approvalToken, now)}
                      ELSE reached
        /\ remOut' = R.out
        /\ UNCHANGED <<now, suggests, disclosed, inFlight>>
        /\ UNCHANGED nonRemVars

StatusCall ==
    LET R == remediation_status(pendingApprovals, now)
    IN  /\ pendingApprovals' = R.map
        /\ remOut' = R.out
        /\ UNCHANGED <<now, suggests, disclosed, reached, inFlight>>
        /\ UNCHANGED nonRemVars

NextRemediation ==
    \/ Tick
    \/ \E action \in RemediationActions \cup {NoAction} : SuggestCall(action)
    \/ \E approvalToken \in {NoToken} \cup RemTokenValues : ExecuteCall(approvalToken)
    \/ \E i \in 1..MaxInFlight, ok \in BOOLEAN : ExecuteReturn(i, ok)
    \/ \E action \in RemediationActions \cup {NoAction},
          approvalToken \in {NoToken} \cup RemTokenValues, ok \in BOOLEAN :
          RollbackCall(action, approvalToken, ok)
    \/ StatusCall

SpecRemediation == Init /\ [][NextRemediation]_vars

(***************************************************************************)
(* Properties.  A property of a call is stated over the operator that      *)
(* models the call, evaluated in every reachable state: the call can be    *)
(* made in any of them.                                                    *)
(***************************************************************************)
\* the request (its id) that a token was generated for
RequestOf(token) == CHOOSE id \in DOMAIN requests : requests[id].token = token
Issued(token) == \E id \in DOMAIN requests : requests[id].token = token

\* C1: execCommand runs a write command only inside a cli tool call in which
\* validateToken returned true for the token supplied in that call; nothing the
\* agent can set by itself makes a write command run.
C1_WriteRunsOnlyWithValidToken == ungated = FALSE

\* C2: a cli tool call (approvalToken variant) for a write command without a
\* token returns requiresApproval with a newly created approvalId and the
\* command's risk level, registers exactly one new PendingApproval for the
\* command, and does not call execCommand.
C2_NoTokenRequestsApproval ==
    \A c \in WriteCommands, o \in BackendOutcomes :
        LET R == cliTool_execute(Store, now, c, NoToken, rng, o)
            id == R.out.approvalId
        IN  /\ R.out.requiresApproval
            /\ ~R.executed
            /\ ~R.out.success
            /\ id # NoId
            /\ id \notin DOMAIN requests
            /\ R.out.riskLevel = RiskOf[c]
            /\ (DOMAIN R.pending) \ (DOMAIN pending) = {id}
            /\ R.pending[id].command = c
            /\ R.pending[id].id = id
            /\ \A k \in (DOMAIN R.pending) \ {id} : R.pending[k] = pending[k]
            /\ R.approvedTokens = clearExpired(Store, now).approvedTokens
C2_Witness ==
    \E id \in DOMAIN pending :
        /\ pending[id].command \in WriteCommands
        /\ pending[id].createdAt = now
        /\ pending[id].riskLevel = "critical"

\* C3: validateToken returns true at most once per token: once a call with a
\* token has returned true, every later validateToken call with that token
\* returns false, for every command, the very next call included.
C3_TokenValidatesAtMostOnce ==
    \A token \in DOMAIN uses :
        /\ uses[token] <= 1
        /\ \A c \in Commands : ~validateToken(Store, now, c, token).ret
C3_Witness ==
    \E token \in DOMAIN uses : uses[token] = 1 /\ ~Expired(now, requests[RequestOf(token)])

\* C4: past a PendingApproval's expiresAt approve(id) returns null and removes
\* the entry; past an approved token's expiry validateToken with the token and
\* its own command returns false and removes the token; no operation extends
\* an expiry beyond createdAt + EXPIRATION_MS of the request.
C4_ExpiredNeverApprovedOrValidated ==
    /\ \A id \in DOMAIN pending :
          /\ pending[id].expiresAt = requests[id].createdAt + EXPIRATION_MS
          /\ Expired(now, pending[id]) =>
                LET R == approve(Store, now, id)
                IN  /\ R.ret = NoToken
                    /\ id \notin DOMAIN R.pending
                    /\ R.approvedTokens = approvedTokens
    /\ \A token \in DOMAIN approvedTokens :
          /\ Issued(token)
          /\ approvedTokens[token].expiresAt
                = requests[RequestOf(token)].createdAt + EXPIRATION_MS
          /\ Expired(now, approvedTokens[token]) =>
                LET R == validateToken(Store, now, approvedTokens[token].command, token)
                IN  /\ ~R.ret
                    /\ token \notin DOMAIN R.approvedTokens
C4_Witness ==
    /\ \E id \in DOMAIN pending : Expired(now, pending[id])
    /\ \E token \in DOMAIN approvedTokens : Expired(now, approvedTokens[token])

\* C5: a token is valid only for the exact command of the PendingApproval it
\* was issued for: for an approved, unexpired token issued for command A and
\* every other command B, validateToken(B, token) returns false.
C5_TokenBoundToCommand ==
    \A token \in DOMAIN approvedTokens :
        /\ Issued(token)
        /\ approvedTokens[token].command = requests[RequestOf(token)].command
        /\ \A B \in Commands :
              B # requests[RequestOf(token)].command
                 => ~validateToken(Store, now, B, token).ret
C5_Witness ==
    \E token \in DOMAIN approvedTokens :
        /\ ~Expired(now, approvedTokens[token])
        /\ approvedTokens[token].command = CmdScale

\* C6: end to end: with token T approved for write command cmd and not expired,
\* run(cmd, T) calls the backend and returns its result; once T has been used,
\* run(cmd, T) does not call the backend and returns requiresApproval with an
\* approvalId different from the first one.
C6_EndToEnd ==
    /\ \A token \in DOMAIN approvedTokens, o \in BackendOutcomes :
          ~Expired(now, approvedTokens[token]) =>
             LET R == cliTool_execute(Store, now, requests[RequestOf(token)].command,
                                      token, rng, o)
             IN  /\ R.executed
                 /\ R.validated
                 /\ ~R.out.requiresApproval
                 /\ R.out.success = (o = "exit0")
                 /\ token \notin DOMAIN R.approvedTokens
    /\ \A token \in DOMAIN uses, o \in BackendOutcomes :
          LET R == cliTool_execute(Store, now, requests[RequestOf(token)].command,
                                   token, rng, o)
          IN  /\ ~R.executed
              /\ R.out.requiresApproval
              /\ R.out.approvalId # NoId
              /\ R.out.approvalId # RequestOf(token)
              /\ R.out.approvalId \in DOMAIN R.pending
C6_Witness ==
    \E token \in DOMAIN uses : \E id \in DOMAIN pending :
        /\ uses[token] = 1
        /\ pending[id].command = requests[RequestOf(token)].command
        /\ id # RequestOf(token)
        /\ pending[id].createdAt = now
        /\ ~Expired(now, requests[RequestOf(token)])

\* C7: no approval request is in the pending set and in the approved-token set
\* at once: approve(id) removes the PendingApproval in the step that adds its
\* token, so no token of approvedTokens is carried by an entry of pending.
C7_PendingAndApprovedDisjoint ==
    /\ \A id \in DOMAIN pending : pending[id].token \notin DOMAIN approvedTokens
    /\ \A id \in DOMAIN pending :
          LET R == approve(Store, now, id)
          IN  /\ id \notin DOMAIN R.pending
              /\ \A k \in DOMAIN R.pending : R.pending[k].token \notin DOMAIN R.approvedTokens
C7_Witness ==
    /\ \E token \in DOMAIN approvedTokens : RequestOf(token) \notin DOMAIN pending
    /\ pending # EmptyMap

\* C8: reject(id) removes the PendingApproval, expired or not, and issues no
\* token: afterwards approve(id) returns null, getPending(id) returns undefined
\* and validateToken with the request's token returns false for every command,
\* in every later state.
C8_RejectIsFinal ==
    /\ \A id \in DOMAIN pending :
          LET R == reject(Store, id)
          IN  id \notin DOMAIN R.pending /\ R.approvedTokens = approvedTokens
    /\ \A id \in rejected :
          /\ id \notin DOMAIN pending
          /\ requests[id].token \notin DOMAIN approvedTokens
          /\ requests[id].token \notin DOMAIN uses
          /\ approve(Store, now, id).ret = NoToken
          /\ getPending(Store, now, id).ret = NoId
          /\ \A c \in Commands : ~validateToken(Store, now, c, requests[id].token).ret
C8_Witness ==
    /\ \E id \in rejected : ~Expired(now, requests[id])
    /\ \E id \in rejected : Expired(now, requests[id])

\* no entry of a store is past its expiresAt at time t
NoExpiredIn(S, t) ==
    /\ \A id \in DOMAIN S.pending : ~Expired(t, S.pending[id])
    /\ \A token \in DOMAIN S.approvedTokens : ~Expired(t, S.approvedTokens[token])

TokenUnknown(token) == token \notin DOMAIN approvedTokens /\ token \notin DOMAIN uses
TokenExpired(token) ==
    token \in DOMAIN approvedTokens /\ Expired(now, approvedTokens[token])
TokenConsumed(token) == token \in DOMAIN uses
TokenForOther(token, command) ==
    token \in DOMAIN approvedTokens /\ approvedTokens[token].command # command

\* C11: a cli tool call for a write command with a token that is unknown,
\* expired, already consumed or approved for a different command does not
\* call execCommand and does not fail: it stores a fresh PendingApproval for
\* the supplied command and returns requiresApproval = true with the new
\* approvalId and the command's risk level.
C11_InvalidTokenRequestsFreshApproval ==
    \A command \in WriteCommands \cap CallCommands, token \in TokenValues,
       o \in BackendOutcomes :
        (\/ TokenUnknown(token)
         \/ TokenExpired(token)
         \/ TokenConsumed(token)
         \/ TokenForOther(token, command))
        => LET R == cliTool_execute(Store, now, command, token, rng, o)
           IN  /\ ~R.executed
               /\ R.created
               /\ R.out.requiresApproval
               /\ ~R.out.success
               /\ R.out.approvalId = generateId(rng)
               /\ R.out.approvalId \notin DOMAIN requests
               /\ R.out.approvalId \in DOMAIN R.pending
               /\ R.pending[R.out.approvalId].command = command
               /\ R.pending[R.out.approvalId].createdAt = now
               /\ R.out.riskLevel = RiskOf[command]
\* a token approved for one command was offered for another: it is still
\* approved and unexpired, and a request for the other command is pending
C11_Witness ==
    \E token \in DOMAIN approvedTokens : \E id \in DOMAIN pending :
        /\ ~Expired(now, approvedTokens[token])
        /\ pending[id].command # approvedTokens[token].command
        /\ pending[id].createdAt = now
        /\ requests[RequestOf(token)].createdAt < now
        /\ token \notin DOMAIN uses

\* C12: execSSHCommand calls on the one shell session are serialized: at most
\* one call is in flight (has written its line and not yet returned) at a
\* time, so no call clears the buffer or writes to the shell while another
\* is polling.
C12_OneCommandInFlight == Cardinality(Polling) <= 1

\* what the shell prints for call n when its terminal does not echo: the
\* command's output and the marker line
Response(n) ==
    calls[n].ran.out \o <<marker(n), ":">> \o ToDigits(calls[n].ran.code) \o <<NL>>

\* C13: marker protocol on a shell that does not echo its input: when the
\* buffer holds the command's output followed by the line <marker>:<n>, the
\* call returns stdout equal to that output, trimmed, and exitCode equal to n.
C13_NoEchoResult ==
    \A n \in Polling :
        (/\ calls[n].ran # NoRan
         /\ shellBuffer = Response(n)
         /\ now - calls[n].startTime < SSH_TIMEOUT_MS)
        => execSSHCommand_poll(shellBuffer, now, calls[n], n)
              = [pc |-> "returned",
                 result |-> [stdout |-> Trim(calls[n].ran.out), stderr |-> <<>>,
                             exitCode |-> calls[n].ran.code]]

\* C14: the tiers are tried in the order critical, high, medium and the first
\* that matches wins; a write command that matches no tier is low; a command
\* that matches no write pattern is not gated and gets no tier.  kubectl
\* delete namespace prod is critical, kubectl get pods -A is not gated.
C14_FirstMatchingTierWins ==
    ret # NoRet =>
        LET critical == SomeTestI(CRITICAL_PATTERNS, arg)
            high == SomeTestI(HIGH_PATTERNS, arg)
            medium == SomeTestI(MEDIUM_PATTERNS, arg)
        IN  /\ ret.gated = isWriteCommand(arg)
            /\ ret.gated /\ critical => ret.riskLevel = "critical"
            /\ ret.gated /\ ~critical /\ high => ret.riskLevel = "high"
            /\ ret.gated /\ ~critical /\ ~high /\ medium => ret.riskLevel = "medium"
            /\ ret.gated /\ ~critical /\ ~high /\ ~medium => ret.riskLevel = "low"
            /\ ~ret.gated => ret.riskLevel = ""
            /\ arg = Chars(CmdDeleteNs) => ret.gated /\ ret.riskLevel = "critical"
            /\ arg = Chars(CmdGetPods) => ~ret.gated
\* a command that matches a critical and a high pattern has been classified
C14_Witness ==
    /\ ret # NoRet
    /\ arg = Chars(CmdDeleteNs)
    /\ SomeTestI(CRITICAL_PATTERNS, arg)
    /\ SomeTestI(HIGH_PATTERNS, arg)
    /\ ret.riskLevel = "critical"

\* C15: redaction is idempotent and removes the secrets: filtering a filtered
\* text changes nothing, and a text that holds `Authorization: Bearer abc123`
\* or a PEM BEGIN/END block comes out with the placeholder in its place and
\* without the bearer value or the PEM body.
C15_IdempotentAndRemoves ==
    ret # NoRet =>
        /\ filterSensitiveData(ret.text) = ret.text
        /\ Includes(arg, BearerHeader) =>
               Includes(ret.text, BearerPlaceholder) /\ ~Includes(ret.text, BearerValue)
        /\ Includes(arg, PemBlock) =>
               Includes(ret.text, PemPlaceholder) /\ ~Includes(ret.text, PemBody)

\* C16: every stdout and stderr text the cli tool returns after executing a
\* command has passed through filterSensitiveData, on the success path (exit
\* code 0) and on the failure path (non-zero exit code) alike.
C16_ReturnedTextsAreRedacted ==
    (ret # NoRet /\ arg.pc = "returned") =>
        /\ ret.out.output = filterSensitiveData(arg.result.stdout)
        /\ arg.result.stderr # <<>> =>
               ret.out.error = filterSensitiveData(arg.result.stderr)

\* no backend is configured: sandbox mode without a driver instance
Unconfigured == ~remoteConfig /\ ~hostMode /\ bashletInstance = NoInstance

\* C17: a cli tool call made while no backend is configured fails with a
\* thrown error that reaches the caller of the tool.
C17_UnconfiguredBackendThrows ==
    Unconfigured =>
        \A command \in ExecCommands, o \in LocalOutcomes :
            LET E == execCommand(command, Len(calls) + 1, o)
            IN  /\ E.pc = "threw"
                /\ cliTool_report(E.pc, E.result).thrown

\* what execCommand and the cli tool do with a command in the current state,
\* and what the poll loop of a waiting call and the cli tool do
Exec(command, o) == execCommand(command, Len(calls) + 1, o)
PollOf(n) == execSSHCommand_poll(shellBuffer, now, calls[n], n)
\* every failure result carries a text in stderr
FailuresHaveStderr ==
    /\ ~Unconfigured =>
          \A command \in ExecCommands, o \in LocalOutcomes :
              (Exec(command, o).pc = "returned" /\ Exec(command, o).result.exitCode # 0)
              => Exec(command, o).result.stderr # <<>>
    /\ \A n \in Polling :
          (PollOf(n).pc = "returned" /\ PollOf(n).result.exitCode # 0)
          => PollOf(n).result.stderr # <<>>

\* C18 (as amended): with a configured backend execCommand never throws.  An
\* exception of the driver, a missing SSH shell and a timeout are returned as
\* a CommandResult with a non-zero exitCode and the error text in stderr; a
\* non-zero exit of the command is returned with its exit code and whatever
\* stderr the backend has for it, which may be empty.  The cli tool reports
\* every such result as a failed result with an error text and does not raise.
C18_ConfiguredBackendNeverThrows ==
    /\ ~Unconfigured =>
          \A command \in ExecCommands, o \in LocalOutcomes :
              LET E == Exec(command, o)
                  T == cliTool_report(E.pc, E.result)
              IN  /\ E.pc # "threw"
                  /\ (remoteConfig /\ (sshShell = NoShell \/ ~shellReady)) =>
                         /\ E.pc = "returned"
                         /\ E.result.exitCode = 1
                         /\ E.result.stderr = <<"SSH shell not connected">>
                  /\ (~remoteConfig /\ o.threw) =>
                         /\ E.pc = "returned"
                         /\ E.result.exitCode = 1
                         /\ E.result.stderr = o.message
                  /\ (~remoteConfig /\ ~o.threw) =>
                         /\ E.pc = "returned"
                         /\ E.result.exitCode = o.exitCode
                         /\ E.result.stderr = o.stderr
                  /\ (E.pc = "returned" /\ E.result.exitCode # 0) =>
                         ~T.thrown /\ ~T.success /\ T.error # NoError
    /\ \A n \in Polling :
          LET P == PollOf(n)
              T == cliTool_report(P.pc, P.result)
          IN  /\ P.pc \in {"polling", "returned"}
              /\ ~(now - calls[n].startTime < SSH_TIMEOUT_MS) =>
                     /\ P.pc = "returned"
                     /\ P.result.exitCode = 124
                     /\ P.result.stderr = <<"Command timed out">>
              /\ (P.pc = "returned" /\ P.result.exitCode # 0) =>
                     ~T.thrown /\ ~T.success /\ T.error # NoError
\* a call in remote mode has returned the timeout result, and the shell is gone
C18_Witness ==
    /\ remoteConfig
    /\ sshShell = NoShell
    /\ \E n \in DOMAIN calls : calls[n].pc = "returned" /\ calls[n].exitCode = 124
\* C18 as stated: every such failure, a non-zero exit included, comes with a
\* non-zero exitCode and a populated stderr
C18_FailuresWithPopulatedStderr == C18_ConfiguredBackendNeverThrows /\ FailuresHaveStderr

\* the state of the approval request id, read from the two maps, the clock and
\* the history of the ledger
RequestState(id) ==
    IF requests[id].token \in DOMAIN uses THEN "EXECUTED"
    ELSE IF id \in rejected THEN "REJECTED"
    ELSE IF Expired(now, requests[id]) THEN "EXPIRED"
    ELSE IF id \in DOMAIN pending THEN "PENDING"
    ELSE IF requests[id].token \in DOMAIN approvedTokens THEN "APPROVED"
    ELSE "NONE"
TerminalStates == {"EXECUTED", "REJECTED", "EXPIRED"}
\* no operation of the ledger or of the cli tool treats the request as pending
\* or approved: it cannot be approved, is not listed, and its token validates
\* for no command
Dead(id) ==
    /\ approve(Store, now, id).ret = NoToken
    /\ getPending(Store, now, id).ret = NoId
    /\ id \notin getAllPending(Store, now).ret
    /\ \A command \in Commands : ~validateToken(Store, now, command, requests[id].token).ret
    /\ \A command \in CallCommands, outcome \in BackendOutcomes :
          ~cliTool_execute(Store, now, command, requests[id].token, rng, outcome).validated
\* the steps a request takes
RequestStep(id) ==
    /\ RequestState(id) \in TerminalStates => RequestState(id)' \in TerminalStates
    /\ RequestState(id) = "PENDING" =>
          RequestState(id)' \in {"PENDING", "APPROVED", "REJECTED", "EXPIRED"}
    /\ RequestState(id) = "APPROVED" =>
          RequestState(id)' \in {"APPROVED", "EXECUTED", "EXPIRED"}
    /\ (requests[id].token \in DOMAIN uses' /\ requests[id].token \notin DOMAIN uses) =>
          RequestState(id) = "APPROVED"
    /\ requests[id].token \in DOMAIN uses => uses'[requests[id].token] = uses[requests[id].token]

\* C19: a request is pending, approved, or in one of the end states rejected,
\* expired and executed (token consumed).  A pending request goes to approved,
\* rejected or expired, an approved one to executed or expired, a new one
\* starts as pending.  A request in an end state stays in an end state in
\* every step of the ledger and the cli tool, is never again answered as
\* pending or approved, and its token validates no execution: a token is
\* consumed once, in a step that starts with the request approved.
C19_TerminalStatesAreFinal ==
    /\ [](\A id \in DOMAIN requests :
            /\ RequestState(id) # "NONE"
            /\ RequestState(id) \in TerminalStates => Dead(id)
            /\ requests[id].token \in DOMAIN uses => uses[requests[id].token] = 1)
    /\ [][/\ \A id \in DOMAIN requests : RequestStep(id)
          /\ \A id \in DOMAIN requests' \ DOMAIN requests : RequestState(id)' = "PENDING"]_vars
\* one request was executed; the other expired with its entry still in a map
C19_Witness ==
    /\ \E id \in DOMAIN requests : RequestState(id) = "EXECUTED"
    /\ \E id \in DOMAIN requests :
          /\ RequestState(id) = "EXPIRED"
          /\ id \in DOMAIN pending \/ requests[id].token \in DOMAIN approvedTokens

\* C20: every call of the remediation tool that reaches executeAction, by the
\* execute operation or by the rollback operation, presented an unexpired
\* approval token issued by an earlier suggest, and that token was not one
\* the agent got from the tool without a user approval.
C20_ExecuteActionOnlyAfterApproval ==
    \A e \in reached : e.presented /\ e.issued /\ e.unexpired /\ ~e.disclosed

\* call n is the only call made and polls on the only shell opened
AloneOnShell(n) ==
    /\ Len(calls) = 1
    /\ Len(shells) = 1
    /\ calls[n].pc = "polling"
    /\ now - calls[n].startTime < SSH_TIMEOUT_MS

\* C21: on a terminal that echoes the input line, a call returns a match
\* result only once the buffer holds the marker followed by a colon and
\* digits; the echoed line, which holds the marker followed by `:$?`, is no
\* match, and the result then carries the command's output without the
\* echoed line and the command's exit code.
C21_EchoedMarkerIsNotAMatch ==
    \A n \in Polling :
        (AloneOnShell(n) /\ shells[1].echo /\ PollOf(n).pc = "returned")
        => /\ ExitCodeMatches(shellBuffer, marker(n)) # {}
           /\ calls[n].ran # NoRan
           /\ PollOf(n).result.stdout = Trim(calls[n].ran.out)
           /\ PollOf(n).result.exitCode = calls[n].ran.code

\* C22: on a match the exit code returned equals the digits the remote shell
\* printed after the marker, however the shell's output is cut into data
\* events and however the data events interleave with the poll: a command
\* that exited non-zero is never reported with exitCode 0.
C22_ExitCodeForEverySplit ==
    \A n \in Polling :
        (AloneOnShell(n) /\ ~shells[1].echo /\ PollOf(n).pc = "returned")
        => /\ calls[n].ran # NoRan
           /\ PollOf(n).result.exitCode = calls[n].ran.code

\* the result of a timed-out call
TimeoutResult(buffer) == [stdout |-> buffer, stderr |-> <<"Command timed out">>, exitCode |-> 124]

\* C23: every execSSHCommand call that has written its line eventually
\* returns, also when the remote never answers or the session is torn down
\* meanwhile.  What it returns is a match result, or, once the timeout has
\* elapsed, stdout equal to the buffer, stderr "Command timed out" and
\* exitCode 124; before the timeout has elapsed and without the marker in
\* the buffer it returns nothing.
C23_EveryCallReturns ==
    /\ [](\A n \in Polling :
            /\ ~(now - calls[n].startTime < SSH_TIMEOUT_MS) =>
                  PollOf(n) = [pc |-> "returned", result |-> TimeoutResult(shellBuffer)]
            /\ (now - calls[n].startTime < SSH_TIMEOUT_MS) =>
                  IF IndexOf(shellBuffer, marker(n)) # -1
                  THEN PollOf(n) = [pc |-> "returned",
                                    result |-> matchResult(shellBuffer, calls[n].command, marker(n))]
                  ELSE PollOf(n).pc = "polling")
    /\ \A n \in 1..MaxCalls :
          (n \in DOMAIN calls /\ calls[n].pc = "polling")
          ~> (n \in DOMAIN calls /\ calls[n].pc = "returned")
\* one call has returned on a match and another on the timeout, and the
\* session has been torn down
C23_Witness ==
    /\ sshShell = NoShell
    /\ \E n \in DOMAIN calls : calls[n].pc = "returned" /\ calls[n].exitCode = 124
    /\ \E n \in DOMAIN calls : calls[n].pc = "returned" /\ calls[n].exitCode \in {0, 2}

\* C24: approve(id) on an existing, unexpired PendingApproval returns the token
\* stored in it and adds one ApprovedToken under that token, with the command
\* and the expiresAt of the pending entry, which is the time of
\* requestApproval plus 10 minutes; every approved token in the store has the
\* command and that expiry of the request it was generated for.
C24_ApproveKeepsTokenAndExpiry ==
    /\ \A id \in DOMAIN pending :
          ~Expired(now, pending[id]) =>
             LET R == approve(Store, now, id)
             IN  /\ R.ret = pending[id].token
                 /\ R.ret = requests[id].token
                 /\ DOMAIN R.approvedTokens = DOMAIN approvedTokens \cup {R.ret}
                 /\ R.approvedTokens[R.ret] =
                       [command |-> pending[id].command, expiresAt |-> pending[id].expiresAt]
                 /\ R.approvedTokens[R.ret].expiresAt = requests[id].createdAt + EXPIRATION_MS
                 /\ \A token \in DOMAIN approvedTokens \ {R.ret} :
                       R.approvedTokens[token] = approvedTokens[token]
    /\ \A token \in DOMAIN approvedTokens :
          /\ Issued(token)
          /\ approvedTokens[token].command = requests[RequestOf(token)].command
          /\ approvedTokens[token].expiresAt
                = requests[RequestOf(token)].createdAt + EXPIRATION_MS
\* a request made after the start is pending at a later time, not yet
\* expired, and an earlier one is approved
C24_Witness ==
    /\ \E id \in DOMAIN pending :
          /\ requests[id].createdAt < now
          /\ ~Expired(now, pending[id])
    /\ \E token \in DOMAIN approvedTokens : ~Expired(now, approvedTokens[token])

\* C25: approve, getPending, reject and validateToken called with an id or a
\* token the store does not hold return null, undefined, nothing and false
\* and leave both maps as they are; called with an id or token whose entry
\* has expired, approve, getPending and validateToken return the same and
\* remove that entry and nothing else.
C25_LookupMissesChangeNothing ==
    /\ \A id \in (IdValues \cup {NoId}) \ DOMAIN pending :
          /\ approve(Store, now, id)
                = [pending |-> pending, approvedTokens |-> approvedTokens, ret |-> NoToken]
          /\ getPending(Store, now, id)
                = [pending |-> pending, approvedTokens |-> approvedTokens, ret |-> NoId]
          /\ reject(Store, id) = [pending |-> pending, approvedTokens |-> approvedTokens]
    /\ \A token \in (TokenValues \cup {NoToken}) \ DOMAIN approvedTokens :
          \A command \in Commands :
              validateToken(Store, now, command, token)
                = [pending |-> pending, approvedTokens |-> approvedTokens, ret |-> FALSE]
    /\ \A id \in DOMAIN pending :
          Expired(now, pending[id]) =>
             /\ approve(Store, now, id)
                   = [pending |-> MapDelete(pending, id), approvedTokens |-> approvedTokens,
                      ret |-> NoToken]
             /\ getPending(Store, now, id)
                   = [pending |-> MapDelete(pending, id), approvedTokens |-> approvedTokens,
                      ret |-> NoId]
    /\ \A token \in DOMAIN approvedTokens :
          Expired(now, approvedTokens[token]) =>
             \A command \in Commands :
                 validateToken(Store, now, command, token)
                   = [pending |-> pending, approvedTokens |-> MapDelete(approvedTokens, token),
                      ret |-> FALSE]
\* two pending entries have expired and are still in the map
C25_Witness ==
    /\ Cardinality(DOMAIN pending) = 2
    /\ \A id \in DOMAIN pending : Expired(now, pending[id])

\* C26: once the remote option has been configured it stays configured, and
\* while no shell is held (after disconnectSSH) every execCommand returns
\* exitCode 1 with stderr "SSH shell not connected", whatever the host or
\* the sandbox would do with the command, and writes to no shell and changes
\* no buffer; a shell is held again only by a step that opens a new one
\* (createSandbox with the remote option).
C26_TornDownSessionIsTerminal ==
    /\ []((remoteConfig /\ sshShell = NoShell) =>
            /\ ~shellReady
            /\ \A command \in ExecCommands, o \in LocalOutcomes :
                  Exec(command, o)
                    = [pc |-> "returned", result |-> Caught(<<"SSH shell not connected">>),
                       shellBuffer |-> shellBuffer, shells |-> shells])
    /\ [][/\ remoteConfig => remoteConfig'
          /\ (remoteConfig /\ sshShell = NoShell /\ sshShell' # NoShell) =>
                /\ Len(shells') = Len(shells) + 1
                /\ sshShell' = Len(shells')
                /\ shells'[sshShell'].open
                /\ calls' = calls]_vars
\* the session was torn down with host mode set and a sandbox driver
\* present, and a call has returned exit code 1
C26_Witness ==
    /\ remoteConfig /\ sshShell = NoShell
    /\ hostMode /\ bashletInstance # NoInstance
    /\ shells = <<ClosedShell>>
    /\ calls = <<Returned(Caught(<<"SSH shell not connected">>))>>

\* C27: the sandbox driver is made once: while an instance exists, a
\* createSandbox without the remote option, with or without host mode and
\* with any options, leaves the instance, its mounts and its timeout as they
\* are, and no step of the backend replaces or drops the instance; the
\* instance is the first one made.
C27_DriverInitializedOnce ==
    /\ [](/\ bashletInstance.id <= 1
          /\ bashletInstance # NoInstance =>
                \A useHost \in BOOLEAN, options \in SandboxOptions :
                    createSandbox_driver(useHost, options) = bashletInstance)
    /\ [][bashletInstance # NoInstance => bashletInstance' = bashletInstance]_vars
\* the driver was made with a 60 s timeout, the backend is in sandbox mode
\* and two calls have run on it
C27_Witness ==
    /\ bashletInstance = Bashlet([codebasePaths |-> "lib", timeout |-> 60], 1)
    /\ ~hostMode /\ ~remoteConfig
    /\ Len(calls) = 2

\* the shell channels, each of its own SSH client, that have not been ended
OpenShells == {sh \in DOMAIN shells : shells[sh].open}

\* C28: at any time at most one SSH client with its shell channel is open,
\* and it is the one the backend holds, so that no data handler of an older
\* shell channel can append to the buffer.
C28_OneOpenConnection ==
    /\ Cardinality(OpenShells) <= 1
    /\ \A sh \in OpenShells : sh = sshShell

\* C29: the token of a request that is pending validates nothing:
\* validateToken with it returns false for every command and changes neither
\* map, and the cli tool called with it validates nothing.  A token enters
\* the approved set only in a step in which approve(id) of its request
\* returns it.
C29_PendingTokenAuthorizesNothing ==
    /\ [](\A id \in DOMAIN pending :
            /\ pending[id].token \notin DOMAIN approvedTokens
            /\ \A command \in Commands :
                  validateToken(Store, now, command, pending[id].token)
                    = [pending |-> pending, approvedTokens |-> approvedTokens, ret |-> FALSE]
            /\ \A command \in CallCommands, outcome \in BackendOutcomes :
                  ~cliTool_execute(Store, now, command, pending[id].token, rng, outcome).validated)
    /\ [][\A token \in DOMAIN approvedTokens' \ DOMAIN approvedTokens :
            /\ Issued(token)
            /\ RequestOf(token) \in DOMAIN pending
            /\ approve(Store, now, RequestOf(token)).ret = token
            /\ pending' = approve(Store, now, RequestOf(token)).pending
            /\ approvedTokens' = approve(Store, now, RequestOf(token)).approvedTokens]_vars
\* one request is pending and not expired while another has been approved
C29_Witness ==
    /\ Cardinality(DOMAIN pending) = 1
    /\ Cardinality(DOMAIN approvedTokens) = 1
    /\ \A id \in DOMAIN pending : ~Expired(now, pending[id]) /\ IsWrite[pending[id].command]

\* handleApprovalDecision of the approval UI: message is the token written
\* into the message that continues the agent, NoToken when no such message
\* is sent (the approval had expired, or the user rejected)
handleApprovalDecision(S, t, id, approved) ==
    IF approved
    THEN LET R == approve(S, t, id)
         IN  [pending |-> R.pending, approvedTokens |-> R.approvedTokens, message |-> R.ret]
    ELSE LET R == reject(S, id)
         IN  [pending |-> R.pending, approvedTokens |-> R.approvedTokens, message |-> NoToken]

\* the tokens held by a store, pending and approved
StoreTokens(S) == {S.pending[id].token : id \in DOMAIN S.pending} \cup DOMAIN S.approvedTokens

\* C30: the one random value in a result of the cli tool, its approvalId, is
\* the token of no request that is pending or approved before or after the
\* call (the other fields are the caller's command, its risk level, flags and
\* what the backend printed), for both cli tools; and the approval UI puts a
\* token into its message only when approve(id) returned that token, which
\* is then an approved one.
C30_NoResultDisclosesAToken ==
    /\ \A command \in CallCommands, approvalToken \in {NoToken} \cup TokenValues,
          outcome \in BackendOutcomes :
          LET R == cliTool_execute(Store, now, command, approvalToken, rng, outcome)
          IN  /\ R.out.approvalId \notin StoreTokens(Store) \cup StoreTokens(R)
              /\ R.created => /\ R.out.approvalId = R.approval.id
                              /\ R.approval.token \in StoreTokens(R)
    /\ \A command \in CallCommands, approved \in BOOLEAN, outcome \in BackendOutcomes :
          LET R == cliTool_execute_approved(Store, command, approved, outcome)
          IN  R.out.approvalId \notin StoreTokens(Store) \cup StoreTokens(R)
    /\ \A id \in IdValues, approved \in BOOLEAN :
          LET H == handleApprovalDecision(Store, now, id, approved)
          IN  H.message # NoToken
              => /\ approved
                 /\ id \in DOMAIN pending
                 /\ H.message = approve(Store, now, id).ret
                 /\ H.message = pending[id].token
                 /\ H.message \in DOMAIN H.approvedTokens
\* a token has been validated while another request is pending
C30_Witness ==
    /\ DOMAIN uses # {}
    /\ \E id \in DOMAIN pending : ~Expired(now, pending[id])

\* the times of the model's clock from t on
TimesFrom(t) == {t + k * TickMs : k \in 0..MaxTicks}

\* C31: validateToken(B, token) with an unexpired token approved for another
\* command A returns false and leaves both maps as they were; after it, and
\* after the gateway call for B that made it, validateToken(A, token) at any
\* time up to the token's expiry returns true.
C31_MismatchDoesNotConsume ==
    \A token \in DOMAIN approvedTokens, B \in Commands :
        (~Expired(now, approvedTokens[token]) /\ approvedTokens[token].command # B)
        => LET A == approvedTokens[token].command
               V == validateToken(Store, now, B, token)
           IN  /\ V = [pending |-> pending, approvedTokens |-> approvedTokens, ret |-> FALSE]
               /\ \A t \in TimesFrom(now) :
                     ~Expired(t, approvedTokens[token])
                     => /\ validateToken(V, t, A, token).ret
                        /\ \A outcome \in BackendOutcomes :
                              LET R == cliTool_execute(Store, now, B, token, rng, outcome)
                              IN  /\ token \in DOMAIN R.approvedTokens
                                  /\ R.approvedTokens[token] = approvedTokens[token]
                                  /\ IsWrite[B] => R.created /\ ~R.executed
                                  /\ validateToken(R, t, A, token).ret
\* a token approved for one command is unexpired while a request for another
\* command is pending
C31_Witness ==
    \E token \in DOMAIN approvedTokens, id \in DOMAIN pending :
        /\ ~Expired(now, approvedTokens[token])
        /\ pending[id].command # approvedTokens[token].command
        /\ pending[id].createdAt >= requests[RequestOf(token)].createdAt

\* C32: a gateway call with a valid token removes the token whatever the
\* backend then does (exit 0, a failure exit such as the timeout's, a throw),
\* and a retry of the same command with the same token, at once or later,
\* executes nothing and returns requiresApproval with the id of a new request;
\* the same holds of every token that has been used.
C32_TokenConsumedBeforeBackend ==
    /\ \A token \in DOMAIN approvedTokens, outcome \in BackendOutcomes :
          ~Expired(now, approvedTokens[token])
          => LET A == approvedTokens[token].command
                 R == cliTool_execute(Store, now, A, token, rng, outcome)
             IN  /\ R.validated /\ R.executed
                 /\ R.out.success = (outcome = "exit0")
                 /\ token \notin DOMAIN R.approvedTokens
                 /\ R.approvedTokens = MapDelete(approvedTokens, token)
                 /\ R.pending = pending
                 /\ \A t \in TimesFrom(now), retry \in BackendOutcomes :
                       LET R2 == cliTool_execute(R, t, A, token, rng, retry)
                       IN  /\ ~R2.executed /\ ~R2.validated
                           /\ R2.out.requiresApproval /\ ~R2.out.success
                           /\ R2.created
                           /\ R2.out.approvalId \notin DOMAIN requests
                           /\ R2.out.approvalId \in DOMAIN R2.pending
    /\ \A token \in DOMAIN uses, outcome \in BackendOutcomes :
          LET R2 == cliTool_execute(Store, now, requests[RequestOf(token)].command,
                                    token, rng, outcome)
          IN  /\ token \notin DOMAIN approvedTokens
              /\ ~R2.executed /\ R2.out.requiresApproval
              /\ R2.out.approvalId \notin DOMAIN requests
\* a used token was presented again for its command: a second request for
\* that command is pending
C32_Witness ==
    \E token \in DOMAIN uses, id \in DOMAIN pending :
        /\ id # RequestOf(token)
        /\ pending[id].command = requests[RequestOf(token)].command
        /\ pending[id].createdAt = now

\* C33: a gateway call for a command that is not a write command, with no
\* token or with any token, runs the command and returns with both maps as
\* they were: no request is created and nothing is validated; a token that
\* was valid before the call is accepted for its own command after it.
C33_ReadCallLeavesLedger ==
    \A command \in Commands, approvalToken \in {NoToken} \cup TokenValues,
       outcome \in BackendOutcomes :
        ~IsWrite[command]
        => LET R == cliTool_execute(Store, now, command, approvalToken, rng, outcome)
           IN  /\ R.executed /\ ~R.created /\ ~R.validated
               /\ ~R.out.requiresApproval
               /\ R.pending = pending
               /\ R.approvedTokens = approvedTokens
               /\ (/\ approvalToken \in DOMAIN approvedTokens
                   /\ ~Expired(now, approvedTokens[approvalToken]))
                  => cliTool_execute(R, now, approvedTokens[approvalToken].command,
                                     approvalToken, rng, outcome).validated
\* an unexpired approved token and a pending request are in the ledger
C33_Witness ==
    /\ \E token \in DOMAIN approvedTokens : ~Expired(now, approvedTokens[token])
    /\ \E id \in DOMAIN pending : Expired(now, pending[id])

\* the pending requests that have not expired at time t
Unexpired(S, t) == {id \in DOMAIN S.pending : ~Expired(t, S.pending[id])}

\* C34: a gateway call for a write command without a token the store accepts
\* adds a request whose id and token no other request has, and keeps every
\* unexpired pending request, those for the same command included, as it
\* was; approve(id) and reject(id) change no pending request but their own;
\* using one approved token leaves every other approved token as it was, and
\* no token has been accepted twice.
C34_RequestsAreIndependent ==
    /\ \A command \in CallCommands, approvalToken \in {NoToken} \cup TokenValues,
          outcome \in BackendOutcomes :
          LET R == cliTool_execute(Store, now, command, approvalToken, rng, outcome)
          IN  (IsWrite[command] /\ ~R.validated)
              => /\ R.created
                 /\ R.approval.id \notin DOMAIN requests
                 /\ R.approval.token \notin {requests[id].token : id \in DOMAIN requests}
                 /\ R.approval.command = command
                 /\ DOMAIN R.pending = Unexpired(Store, now) \cup {R.approval.id}
                 /\ R.pending[R.approval.id] = R.approval
                 /\ \A id \in Unexpired(Store, now) : R.pending[id] = pending[id]
    /\ \A id \in IdValues :
          /\ approve(Store, now, id).pending = MapDelete(pending, id)
          /\ reject(Store, id).pending = MapDelete(pending, id)
    /\ \A token \in DOMAIN approvedTokens, outcome \in BackendOutcomes :
          LET R == cliTool_execute(Store, now, approvedTokens[token].command,
                                   token, rng, outcome)
          IN  R.validated
              => /\ R.approvedTokens = MapDelete(approvedTokens, token)
                 /\ R.pending = pending
    /\ \A i, j \in DOMAIN requests : requests[i].token = requests[j].token => i = j
    /\ \A token \in DOMAIN uses : uses[token] = 1
\* of two requests for the same command one is pending and unexpired while
\* the token of the other has been used
C34_Witness ==
    \E i \in DOMAIN pending, token \in DOMAIN uses :
        /\ i # RequestOf(token)
        /\ pending[i].command = requests[RequestOf(token)].command
        /\ ~Expired(now, pending[i])
        /\ pending[i].createdAt <= requests[RequestOf(token)].createdAt

\* C35: an entry is expired at the times greater than its expiresAt, which is
\* createdAt + 600000 ms, and at no other: at the time equal to expiresAt
\* approve(id) returns the token, validateToken accepts an approved token for
\* its command and clearExpired keeps the entry; one millisecond later approve
\* returns null, validateToken returns false and clearExpired removes it.
C35_ExpiryIsStrict ==
    /\ \A id \in DOMAIN pending :
          LET e == pending[id]
          IN  /\ e.expiresAt = e.createdAt + 600000
              /\ Expired(now, e) <=> now > e.expiresAt
              /\ now <= e.expiresAt
                 => /\ approve(Store, e.expiresAt, id).ret = e.token
                    /\ e.token \in DOMAIN approve(Store, e.expiresAt, id).approvedTokens
                    /\ id \in DOMAIN clearExpired(Store, e.expiresAt).pending
                    /\ approve(Store, e.expiresAt + 1, id).ret = NoToken
                    /\ id \notin DOMAIN clearExpired(Store, e.expiresAt + 1).pending
    /\ \A token \in DOMAIN approvedTokens :
          LET a == approvedTokens[token]
          IN  /\ a.expiresAt = requests[RequestOf(token)].createdAt + 600000
              /\ Expired(now, a) <=> now > a.expiresAt
              /\ now <= a.expiresAt
                 => /\ validateToken(Store, a.expiresAt, a.command, token).ret
                    /\ token \in DOMAIN clearExpired(Store, a.expiresAt).approvedTokens
                    /\ ~validateToken(Store, a.expiresAt + 1, a.command, token).ret
                    /\ token \notin DOMAIN clearExpired(Store, a.expiresAt + 1).approvedTokens
\* the clock stands at the expiresAt of a pending request and of an approved
\* token, both still in the ledger
C35_Witness ==
    /\ \E id \in DOMAIN pending : now = pending[id].expiresAt
    /\ \E token \in DOMAIN approvedTokens : now = approvedTokens[token].expiresAt

\* call n started when no other call was waiting, after every earlier call
\* had returned its timeout result, and polls on the only shell opened, whose
\* terminal does not echo
AfterTimedOutCalls(n) ==
    /\ n > 1
    /\ Len(shells) = 1
    /\ ~shells[1].echo
    /\ calls[n].pc = "polling"
    /\ calls[n].serial
    /\ \A k \in 1..(n - 1) : calls[k].pc = "returned" /\ calls[k].exitCode = 124
    /\ now - calls[n].startTime < SSH_TIMEOUT_MS

\* the wait of such a call ends only on the marker line of its own command
OwnMarkerEndsWait ==
    \A n \in Polling :
        (AfterTimedOutCalls(n) /\ PollOf(n).pc = "returned")
        => /\ calls[n].ran # NoRan
           /\ IndexOf(shellBuffer, marker(n)) # -1

\* C36: a call made after an earlier call timed out returns only on its own
\* marker line, and the stdout it returns holds no marker of the earlier
\* call and is the output of its own command.
C36_OnlyOwnOutput ==
    /\ OwnMarkerEndsWait
    /\ \A n \in Polling :
          (AfterTimedOutCalls(n) /\ PollOf(n).pc = "returned")
          => /\ \A k \in 1..(n - 1) : IndexOf(PollOf(n).result.stdout, marker(k)) = -1
             /\ Len(PollOf(n).result.stdout) <= Len(calls[n].ran.out)

\* an approval token stops working once one execute operation called with it
\* has returned from executeAction
UsedTokenIsRejected ==
    \A i \in DOMAIN inFlight, ok \in BOOLEAN :
        LET R == remediation_execute_resume(pendingApprovals, inFlight[i], ok)
            E == remediation_execute(R.map, now, inFlight[i].token)
        IN  /\ ~E.found
            /\ E.out = Failure("Invalid approval token. Please suggest the action first.")

\* C37: no two execute operations that await executeAction at the same time
\* were called with the same approval token, and once one execute operation
\* with a token has returned from executeAction, an execute with that token
\* is rejected as invalid.
C37_TokenRunsOneAction ==
    /\ UsedTokenIsRejected
    /\ \A i, j \in DOMAIN inFlight : inFlight[i].token = inFlight[j].token => i = j

\* the tiers with a pattern table
ExplicitTiers == {"critical", "high", "medium"}

\* C38: a command that classifyRisk rates critical, high or medium is a write
\* command for isWriteCommand, so the cli tool asks for approval for it.
C38_TieredCommandsAreGated ==
    ret # NoRet =>
        (classifyRisk(arg) \in ExplicitTiers => isWriteCommand(arg) /\ ret.gated)

====
